---- MODULE Spec2Model ----
(***************************************************************************)
(* Roster store of src/db.py (SQLite tables classes, members,              *)
(* member_socials, family, skipped_numbers) and the operations on it.      *)
(*                                                                         *)
(* Text values are sequences of one-character strings, so that strip()     *)
(* and LOWER() are computed.  An optional value (SQL NULL, Python None) is *)
(* a sequence of length 0 or 1.  join_order is a REAL column whose values  *)
(* are whole or half numbers; the model stores twice the value.            *)
(*                                                                         *)
(* src/db.py line 477 (_normalize_headers) is not valid Python as written; *)
(* the model takes the header map it evidently means (strip and lower      *)
(* every column name).                                                     *)
(***************************************************************************)
EXTENDS Integers, Sequences, FiniteSets, TLC

\* ---------------------------------------------------------------- bounds
MaxMembers == 3
MaxClasses == 2
MaxRoll == 5
\* members created in one run of the class, roster and member specifications
MaxCreated == 2

VARIABLES
    classes,          \* classes table: id -> [name, order_index]
    members,          \* members table: id -> row
    member_socials,   \* member_socials table: <<member_id, platform>> -> handle
    family,           \* family table: member_id -> big_id (optional)
    skipped_numbers,  \* skipped_numbers table: set of roll numbers
    seq_classes,      \* AUTOINCREMENT counter of classes.id
    seq_members,      \* AUTOINCREMENT counter of members.id
    assigned,         \* history: every <<member id, roll number>> ever inserted
    result,           \* outcome of the last call: [op, err, val]
    callers           \* the interleaved callers' positions and locals

store == <<classes, members, member_socials, family, skipped_numbers,
           seq_classes, seq_members>>
vars == <<classes, members, member_socials, family, skipped_numbers,
          seq_classes, seq_members, assigned, result, callers>>

\* ------------------------------------------------------------------ text
None == <<>>
Some(x) == <<x>>

IsSpace(c) == c = " "

RECURSIVE lstrip(_)
lstrip(s) == IF s # <<>> /\ IsSpace(Head(s)) THEN lstrip(Tail(s)) ELSE s

RECURSIVE rstrip(_)
rstrip(s) ==
    IF s # <<>> /\ IsSpace(s[Len(s)]) THEN rstrip(SubSeq(s, 1, Len(s) - 1)) ELSE s

\* str.strip()
strip(s) == rstrip(lstrip(s))

UpperCase == <<"A", "B", "C", "D", "E", "F", "G", "H", "I", "J", "K", "L", "M",
               "N", "O", "P", "Q", "R", "S", "T", "U", "V", "W", "X", "Y", "Z">>
LowerCase == <<"a", "b", "c", "d", "e", "f", "g", "h", "i", "j", "k", "l", "m",
               "n", "o", "p", "q", "r", "s", "t", "u", "v", "w", "x", "y", "z">>

LowerOf ==
    [c \in {UpperCase[i] : i \in 1..Len(UpperCase)} |->
        LowerCase[CHOOSE i \in 1..Len(UpperCase) : UpperCase[i] = c]]

LowerChar(c) == IF c \in DOMAIN LowerOf THEN LowerOf[c] ELSE c

\* SQL LOWER(), str.lower()
LOWER(s) == [i \in 1..Len(s) |-> LowerChar(s[i])]

\* f"{first} {last}"
FullName(first, last) == first \o <<" ">> \o last

\* Python truthiness of an optional text: None and "" are false
Truthy(o) == o # None /\ o[1] # <<>>

SetMax(S, dflt) == IF S = {} THEN dflt ELSE CHOOSE x \in S : \A y \in S : y <= x

Restrict(f, S) == [x \in S |-> f[x]]

\* -------------------------------------------------------------- helpers
\* SELECT id FROM classes WHERE name=?   (optional id)
class_id(name) ==
    LET hit == {c \in DOMAIN classes : classes[c].name = name}
    IN  IF hit = {} THEN None ELSE Some(CHOOSE c \in hit : TRUE)

\* rows that SELECT id FROM members WHERE LOWER(nickname)=LOWER(?) scans;
\* fetchone() takes one of them, in no stated order
member_ids_by_nick(nick) ==
    {m \in DOMAIN members : LOWER(members[m].nickname) = LOWER(nick)}

\* members of the class with this id (an optional id: none for NULL)
MembersOfClass(cid) == {m \in DOMAIN members : Some(members[m].class_id) = cid}

\* SELECT m.id FROM members m JOIN classes c ON m.class_id=c.id WHERE c.name=?
MembersOfClassName(name) ==
    {m \in DOMAIN members :
        \E c \in DOMAIN classes :
            classes[c].name = name /\ members[m].class_id = c}

Rolls == {members[m].roll_number : m \in DOMAIN members}

\* the while loop of _next_roll_number
RECURSIVE SkipLoop(_, _)
SkipLoop(n, skipped) == IF n \in skipped THEN SkipLoop(n + 1, skipped) ELSE n

\* mutant: the allocator ignores the skipped set
next_roll_number_noskip(rolls, skipped) == SetMax(rolls, 1) + 1

\* mutant: the allocator starts at the current maximum, not after it
next_roll_number_nostep(rolls, skipped) == SkipLoop(SetMax(rolls, 1), skipped)

\* _next_roll_number over the committed rolls and skipped numbers
next_roll_number(rolls, skipped) == SkipLoop(SetMax(rolls, 1) + 1, skipped)

Ok(op, val) == [op |-> op, err |-> "", val |-> val]
Err(op, e) == [op |-> op, err |-> e, val |-> None]

NewMember(cid, first, last, nick, jo, roll, bio) ==
    [class_id |-> cid[1], first_name |-> first, last_name |-> last,
     nickname |-> nick, full_name |-> Some(FullName(first, last)),
     join_order |-> jo, roll_number |-> roll, honorific |-> <<"M", "r", ".">>,
     bio |-> bio, major |-> None, age |-> None, ethnicity |-> None,
     hometown |-> None, discord_handle |-> None, phone |-> None]

\* mutant: the members table has no UNIQUE constraint on roll_number
MemberInsertError_norollunique(mem, cid, nick, roll) ==
    IF cid = None THEN "IntegrityError: NOT NULL members.class_id"
    ELSE IF \E m \in DOMAIN mem :
                Some(mem[m].class_id) = cid /\ mem[m].nickname = nick
    THEN "IntegrityError: UNIQUE members.class_id, members.nickname"
    ELSE ""

\* the constraints an INSERT INTO members meets in table mem: NOT NULL
\* class_id, UNIQUE(class_id, nickname), UNIQUE roll_number
MemberInsertError(mem, cid, nick, roll) ==
    IF cid = None THEN "IntegrityError: NOT NULL members.class_id"
    ELSE IF \E m \in DOMAIN mem :
                Some(mem[m].class_id) = cid /\ mem[m].nickname = nick
    THEN "IntegrityError: UNIQUE members.class_id, members.nickname"
    ELSE IF \E m \in DOMAIN mem : mem[m].roll_number = roll
    THEN "IntegrityError: UNIQUE members.roll_number"
    ELSE ""

\* ---------------------------------------------------- interleaved callers
\* Callers that run add_member and import_roster_dataframe one SQL statement
\* at a time.  Every statement is atomic; a write statement waits while
\* another connection holds the write lock of an open transaction.
Procs == {1, 2}

Idle == [pc |-> "idle", op |-> "", args |-> None, cid |-> None, next_idx |-> 0,
         join_order |-> 0, last |-> 0, roll_number |-> 0, row |-> 0,
         existing |-> None, txopen |-> FALSE, tx |-> None, cids |-> {},
         ranks |-> <<>>]

\* ------------------------------------------------------------------ init
Init ==
    /\ classes = <<>>
    /\ members = <<>>
    /\ member_socials = <<>>
    /\ family = <<>>
    /\ skipped_numbers = {}
    /\ seq_classes = 0
    /\ seq_members = 0
    /\ assigned = {}
    /\ result = Ok("init", None)
    /\ callers = [p \in Procs |-> Idle]

\* ------------------------------------------------------- skipped numbers
\* mutant: excluding a number moves its holder to the next free number
add_skipped_number_renumbering(number) ==
    /\ skipped_numbers' = skipped_numbers \cup {number}
    /\ members' = [m \in DOMAIN members |->
                     IF members[m].roll_number = number
                     THEN [members[m] EXCEPT !.roll_number =
                              next_roll_number(Rolls, skipped_numbers \cup {number})]
                     ELSE members[m]]
    /\ result' = Ok("add_skipped_number", None)
    /\ UNCHANGED <<classes, member_socials, family,
                   seq_classes, seq_members, assigned, callers>>

add_skipped_number(number) ==
    /\ skipped_numbers' = skipped_numbers \cup {number}
    /\ result' = Ok("add_skipped_number", None)
    /\ UNCHANGED <<classes, members, member_socials, family,
                   seq_classes, seq_members, assigned, callers>>

remove_skipped_number(number) ==
    /\ skipped_numbers' = skipped_numbers \ {number}
    /\ result' = Ok("remove_skipped_number", None)
    /\ UNCHANGED <<classes, members, member_socials, family,
                   seq_classes, seq_members, assigned, callers>>

\* ---------------------------------------------------------------- classes
\* mutant: an existing name is overwritten with the new order index
add_class_replacing(name, order_index) ==
    /\ seq_classes < MaxClasses
    /\ IF \E c \in DOMAIN classes : classes[c].name = strip(name)
       THEN /\ classes' = [c \in DOMAIN classes |->
                             IF classes[c].name = strip(name)
                             THEN [classes[c] EXCEPT !.order_index = order_index]
                             ELSE classes[c]]
            /\ result' = Ok("add_class", None)
            /\ UNCHANGED seq_classes
       ELSE /\ classes' = classes @@
                  ((seq_classes + 1) :>
                      [name |-> strip(name), order_index |-> order_index])
            /\ seq_classes' = seq_classes + 1
            /\ result' = Ok("add_class", None)
    /\ UNCHANGED <<members, member_socials, family, skipped_numbers,
                   seq_members, assigned, callers>>

add_class(name, order_index) ==
    /\ seq_classes < MaxClasses
    /\ IF \E c \in DOMAIN classes : classes[c].name = strip(name)
       THEN /\ result' = Err("add_class", "IntegrityError: UNIQUE classes.name")
            /\ UNCHANGED <<classes, seq_classes>>
       ELSE /\ classes' = classes @@
                  ((seq_classes + 1) :>
                      [name |-> strip(name), order_index |-> order_index])
            /\ seq_classes' = seq_classes + 1
            /\ result' = Ok("add_class", None)
    /\ UNCHANGED <<members, member_socials, family, skipped_numbers,
                   seq_members, assigned, callers>>

\* mutant: family rows naming a removed member as big are kept
remove_class_keepbigs(name) ==
    LET gone == MembersOfClassName(name)
    IN  /\ member_socials' =
              Restrict(member_socials,
                       {k \in DOMAIN member_socials : k[1] \notin gone})
        /\ family' = Restrict(family, {m \in DOMAIN family : m \notin gone})
        /\ members' = Restrict(members, DOMAIN members \ gone)
        /\ classes' =
              Restrict(classes, {c \in DOMAIN classes : classes[c].name # name})
        /\ result' = Ok("remove_class", None)
        /\ UNCHANGED <<skipped_numbers, seq_classes, seq_members, assigned, callers>>

remove_class(name) ==
    LET gone == MembersOfClassName(name)
    IN  /\ member_socials' =
              Restrict(member_socials,
                       {k \in DOMAIN member_socials : k[1] \notin gone})
        /\ family' =
              Restrict(family,
                       {m \in DOMAIN family :
                           ~(m \in gone \/ (family[m] # None /\ family[m][1] \in gone))})
        /\ members' = Restrict(members, DOMAIN members \ gone)
        /\ classes' =
              Restrict(classes, {c \in DOMAIN classes : classes[c].name # name})
        /\ result' = Ok("remove_class", None)
        /\ UNCHANGED <<skipped_numbers, seq_classes, seq_members, assigned, callers>>

\* mutant: a missing class is reported, not created
ensure_class_notfound(name) ==
    [err |-> IF class_id(name) # None THEN "" ELSE "NotFound",
     classes |-> classes, seq |-> seq_classes, cid |-> class_id(name)]

\* _ensure_class: the class id for the name, creating the class when the
\* name has no row.  The new row holds name.strip(); the id returned is
\* looked up again under the name as given.
ensure_class(name) ==
    IF class_id(name) # None
    THEN [err |-> "", classes |-> classes, seq |-> seq_classes, cid |-> class_id(name)]
    ELSE IF \E c \in DOMAIN classes : classes[c].name = strip(name)
    THEN [err |-> "IntegrityError: UNIQUE classes.name", classes |-> classes,
          seq |-> seq_classes, cid |-> None]
    ELSE LET next_idx ==
                 SetMax({classes[c].order_index : c \in DOMAIN classes}, 0) + 1
             id == seq_classes + 1
         IN  [err |-> "", seq |-> id,
              classes |-> classes @@
                  (id :> [name |-> strip(name), order_index |-> next_idx]),
              cid |-> IF strip(name) = name THEN Some(id) ELSE None]

\* ---------------------------------------------------------------- members
\* SELECT COALESCE(MAX(join_order), 0) + 1 FROM members WHERE class_id=?
\* mutant: a new member is always put at the first position of the class
next_join_order_first(cid) == 2

next_join_order(cid) ==
    SetMax({members[m].join_order : m \in MembersOfClass(cid)}, 0) + 2

add_member(class_name, first_name, last_name, nickname, bio) ==
    LET e == ensure_class(class_name)
        first == strip(first_name)
        last == strip(last_name)
        nick == strip(nickname)
        join_order == next_join_order(e.cid)
        roll_number == next_roll_number(Rolls, skipped_numbers)
        id == seq_members + 1
    IN  /\ e.seq <= MaxClasses
        /\ IF e.err # ""
           THEN /\ result' = Err("add_member", e.err)
                /\ UNCHANGED <<classes, seq_classes, members, seq_members, assigned>>
           ELSE /\ classes' = e.classes
                /\ seq_classes' = e.seq
                /\ IF MemberInsertError(members, e.cid, nick, roll_number) # ""
                   THEN /\ result' =
                              Err("add_member",
                                  MemberInsertError(members, e.cid, nick, roll_number))
                        /\ UNCHANGED <<members, seq_members, assigned>>
                   ELSE /\ id <= MaxMembers
                        /\ roll_number <= MaxRoll
                        /\ members' = members @@
                              (id :> NewMember(e.cid, first, last, nick,
                                               join_order, roll_number, bio))
                        /\ seq_members' = id
                        /\ assigned' = assigned \cup {<<id, roll_number>>}
                        /\ result' = Ok("add_member", Some(roll_number))
        /\ UNCHANGED <<member_socials, family, skipped_numbers, callers>>

\* mutant: the family rows that name the member as big are kept
delete_member_keeplittles(mid) ==
    /\ member_socials' =
          Restrict(member_socials, {k \in DOMAIN member_socials : k[1] # mid})
    /\ family' = Restrict(family, DOMAIN family \ {mid})
    /\ members' = Restrict(members, DOMAIN members \ {mid})

\* the three DELETEs of remove_member for member id mid
delete_member(mid) ==
    /\ member_socials' =
          Restrict(member_socials, {k \in DOMAIN member_socials : k[1] # mid})
    /\ family' =
          Restrict(family,
                   {m \in DOMAIN family : ~(m = mid \/ family[m] = Some(mid))})
    /\ members' = Restrict(members, DOMAIN members \ {mid})

remove_member(nickname) ==
    /\ IF member_ids_by_nick(nickname) = {}
       THEN UNCHANGED <<members, member_socials, family>>
       ELSE \E mid \in member_ids_by_nick(nickname) : delete_member(mid)
    /\ result' = Ok("remove_member", None)
    /\ UNCHANGED <<classes, skipped_numbers, seq_classes, seq_members,
                   assigned, callers>>

\* ------------------------------------------- profiles / socials / family
\* the optional arguments of update_member_profile that are "not None"
ProfileFields == {"major", "age", "ethnicity", "hometown", "discord_handle"}

\* UPDATE members SET <provided fields> WHERE id=mid; patch maps each
\* profile field to an optional new value
apply_profile_clearing(row, patch) ==
    [f \in DOMAIN row |-> IF f \in ProfileFields THEN patch[f] ELSE row[f]]

apply_profile(row, patch) ==
    [f \in DOMAIN row |->
        IF f \in ProfileFields /\ patch[f] # None THEN patch[f] ELSE row[f]]

update_member_profile(nickname, patch) ==
    /\ IF member_ids_by_nick(nickname) = {}
       THEN /\ result' = Err("update_member_profile", "ValueError")
            /\ UNCHANGED members
       ELSE /\ \E mid \in member_ids_by_nick(nickname) :
                  members' = [members EXCEPT ![mid] = apply_profile(@, patch)]
            /\ result' = Ok("update_member_profile", None)
    /\ UNCHANGED <<classes, member_socials, family, skipped_numbers,
                   seq_classes, seq_members, assigned, callers>>

\* the row after update_member_name's UPDATE; every argument is optional
apply_name(row, first_name, last_name, new_nickname, honorific) ==
    LET new_first == IF first_name # None THEN first_name[1] ELSE row.first_name
        new_last == IF last_name # None THEN last_name[1] ELSE row.last_name
    IN  [row EXCEPT
            !.first_name = new_first,
            !.last_name = new_last,
            !.nickname = IF new_nickname # None THEN new_nickname[1] ELSE @,
            !.honorific = IF honorific # None THEN honorific[1] ELSE @,
            !.full_name = IF first_name # None \/ last_name # None
                          THEN Some(FullName(new_first, new_last)) ELSE @]

\* UNIQUE(class_id, nickname) seen by an UPDATE of row mid to nickname nick
NicknameClash(mem, mid, nick) ==
    \E m \in DOMAIN mem :
        /\ m # mid
        /\ mem[m].class_id = mem[mid].class_id
        /\ mem[m].nickname = nick

update_member_name(nickname, first_name, last_name, new_nickname, honorific) ==
    /\ IF member_ids_by_nick(nickname) = {}
       THEN /\ result' = Err("update_member_name", "ValueError")
            /\ UNCHANGED members
       ELSE \E mid \in member_ids_by_nick(nickname) :
              IF new_nickname # None /\ NicknameClash(members, mid, new_nickname[1])
              THEN /\ result' =
                        Err("update_member_name",
                            "IntegrityError: UNIQUE members.class_id, members.nickname")
                   /\ UNCHANGED members
              ELSE /\ members' =
                        [members EXCEPT
                            ![mid] = apply_name(@, first_name, last_name,
                                                new_nickname, honorific)]
                   /\ result' = Ok("update_member_name", None)
    /\ UNCHANGED <<classes, member_socials, family, skipped_numbers,
                   seq_classes, seq_members, assigned, callers>>

\* INSERT ... ON CONFLICT DO UPDATE on a table keyed by k
Upsert(f, k, v) == [x \in DOMAIN f \cup {k} |-> IF x = k THEN v ELSE f[x]]

set_social_keepcase(nickname, platform, handle) ==
    /\ IF member_ids_by_nick(nickname) = {}
       THEN /\ result' = Err("set_social", "ValueError")
            /\ UNCHANGED member_socials
       ELSE /\ \E mid \in member_ids_by_nick(nickname) :
                  member_socials' =
                      Upsert(member_socials, <<mid, platform>>, handle)
            /\ result' = Ok("set_social", None)
    /\ UNCHANGED <<classes, members, family, skipped_numbers,
                   seq_classes, seq_members, assigned, callers>>

set_social(nickname, platform, handle) ==
    /\ IF member_ids_by_nick(nickname) = {}
       THEN /\ result' = Err("set_social", "ValueError")
            /\ UNCHANGED member_socials
       ELSE /\ \E mid \in member_ids_by_nick(nickname) :
                  member_socials' =
                      Upsert(member_socials, <<mid, LOWER(platform)>>, handle)
            /\ result' = Ok("set_social", None)
    /\ UNCHANGED <<classes, members, family, skipped_numbers,
                   seq_classes, seq_members, assigned, callers>>

remove_social(nickname, platform) ==
    /\ IF member_ids_by_nick(nickname) = {}
       THEN UNCHANGED member_socials
       ELSE \E mid \in member_ids_by_nick(nickname) :
              member_socials' =
                  Restrict(member_socials,
                           DOMAIN member_socials \ {<<mid, LOWER(platform)>>})
    /\ result' = Ok("remove_social", None)
    /\ UNCHANGED <<classes, members, family, skipped_numbers,
                   seq_classes, seq_members, assigned, callers>>

\* big_nickname is optional; None and "" clear the big
set_big_insertonly(nickname, big_nickname) ==
    /\ IF member_ids_by_nick(nickname) = {}
       THEN /\ result' = Err("set_big", "ValueError")
            /\ UNCHANGED family
       ELSE IF Truthy(big_nickname) /\ member_ids_by_nick(big_nickname[1]) = {}
       THEN /\ result' = Err("set_big", "ValueError")
            /\ UNCHANGED family
       ELSE /\ \E mid \in member_ids_by_nick(nickname) :
                  IF mid \in DOMAIN family
                  THEN family' = family
                  ELSE IF Truthy(big_nickname)
                  THEN \E bid \in member_ids_by_nick(big_nickname[1]) :
                          family' = Upsert(family, mid, Some(bid))
                  ELSE family' = Upsert(family, mid, None)
            /\ result' = Ok("set_big", None)
    /\ UNCHANGED <<classes, members, member_socials, skipped_numbers,
                   seq_classes, seq_members, assigned, callers>>

set_big(nickname, big_nickname) ==
    /\ IF member_ids_by_nick(nickname) = {}
       THEN /\ result' = Err("set_big", "ValueError")
            /\ UNCHANGED family
       ELSE IF Truthy(big_nickname) /\ member_ids_by_nick(big_nickname[1]) = {}
       THEN /\ result' = Err("set_big", "ValueError")
            /\ UNCHANGED family
       ELSE /\ \E mid \in member_ids_by_nick(nickname) :
                  IF Truthy(big_nickname)
                  THEN \E bid \in member_ids_by_nick(big_nickname[1]) :
                          family' = Upsert(family, mid, Some(bid))
                  ELSE family' = Upsert(family, mid, None)
            /\ result' = Ok("set_big", None)
    /\ UNCHANGED <<classes, members, member_socials, skipped_numbers,
                   seq_classes, seq_members, assigned, callers>>

\* ---------------------------------------------- display-only reordering
\* SELECT ... FROM members WHERE roll_number=?   (roll_number is UNIQUE)
member_core_by_roll(roll_number) ==
    LET hit == {m \in DOMAIN members : members[m].roll_number = roll_number}
    IN  IF hit = {} THEN None ELSE Some(CHOOSE m \in hit : TRUE)

\* ORDER BY join_order ASC, id ASC
Before(mem, a, b) ==
    \/ mem[a].join_order < mem[b].join_order
    \/ mem[a].join_order = mem[b].join_order /\ a < b

\* enumerate(rows, start=1): the 1-based rank of m among the rows of its class
Rank(mem, m) ==
    Cardinality({x \in DOMAIN mem :
                    mem[x].class_id = mem[m].class_id /\ Before(mem, x, m)}) + 1

\* mutant: renormalization is skipped
renormalize_join_order_skip(mem, cid) == mem

\* mutant: renormalization renumbers the roll numbers as well
renormalize_join_order_rolls(mem, cid) ==
    [m \in DOMAIN mem |->
        IF mem[m].class_id = cid
        THEN [mem[m] EXCEPT !.join_order = 2 * Rank(mem, m),
                            !.roll_number = Rank(mem, m) + 1]
        ELSE mem[m]]

\* mutant: rows with equal join_order are numbered by descending id
renormalize_join_order_tiesdesc(mem, cid) ==
    [m \in DOMAIN mem |->
        IF mem[m].class_id = cid
        THEN [mem[m] EXCEPT !.join_order =
                 2 * (Cardinality({x \in DOMAIN mem :
                         /\ mem[x].class_id = cid
                         /\ \/ mem[x].join_order < mem[m].join_order
                            \/ mem[x].join_order = mem[m].join_order /\ x > m}) + 1)]
        ELSE mem[m]]

\* _renormalize_join_order: positions 1..N in the class, in row order
renormalize_join_order(mem, cid) ==
    [m \in DOMAIN mem |->
        IF mem[m].class_id = cid
        THEN [mem[m] EXCEPT !.join_order = 2 * Rank(mem, m)]
        ELSE mem[m]]

\* mutant: the swap writes nothing before the renormalization
swapped_nowrite(mem, a, b) == renormalize_join_order(mem, mem[a].class_id)

\* the three UPDATEs of swap_display_positions on members a and b, then
\* _renormalize_join_order of their class
swapped(mem, a, b) ==
    LET a_ord == mem[a].join_order
        b_ord == mem[b].join_order
        m1 == [mem EXCEPT ![a].join_order = -2]
        m2 == [m1 EXCEPT ![b].join_order = a_ord]
        m3 == [m2 EXCEPT ![a].join_order = b_ord]
    IN  renormalize_join_order(m3, mem[a].class_id)

\* mutant: the swap does not compare the two class ids
swap_display_positions_anyclass(number_a, number_b) ==
    LET a == member_core_by_roll(number_a)
        b == member_core_by_roll(number_b)
    IN  /\ IF a = None \/ b = None
           THEN /\ result' = Err("swap_display_positions", "ValueError")
                /\ UNCHANGED members
           ELSE /\ members' = swapped(members, a[1], b[1])
                /\ result' = Ok("swap_display_positions", None)
        /\ UNCHANGED <<classes, member_socials, family, skipped_numbers,
                       seq_classes, seq_members, assigned, callers>>

swap_display_positions(number_a, number_b) ==
    LET a == member_core_by_roll(number_a)
        b == member_core_by_roll(number_b)
    IN  /\ IF a = None \/ b = None
           THEN /\ result' = Err("swap_display_positions", "ValueError")
                /\ UNCHANGED members
           ELSE IF members[a[1]].class_id # members[b[1]].class_id
           THEN /\ result' = Err("swap_display_positions", "ValueError")
                /\ UNCHANGED members
           ELSE /\ members' = swapped(members, a[1], b[1])
                /\ result' = Ok("swap_display_positions", None)
        /\ UNCHANGED <<classes, member_socials, family, skipped_numbers,
                       seq_classes, seq_members, assigned, callers>>

\* mutant: the moved member takes the target's join_order itself
moved_ontarget(mem, src, tgt) ==
    renormalize_join_order(
        [mem EXCEPT ![src].join_order = mem[tgt].join_order],
        mem[src].class_id)

\* the UPDATE of move_display_after (t_ord + 0.5, one unit of the doubled
\* join_order) on member src, then _renormalize_join_order of its class
moved(mem, src, tgt) ==
    renormalize_join_order(
        [mem EXCEPT ![src].join_order = mem[tgt].join_order + 1],
        mem[src].class_id)

move_display_after(number, target_after) ==
    LET src == member_core_by_roll(number)
        tgt == member_core_by_roll(target_after)
    IN  /\ IF src = None \/ tgt = None
           THEN /\ result' = Err("move_display_after", "ValueError")
                /\ UNCHANGED members
           ELSE IF members[src[1]].class_id # members[tgt[1]].class_id
           THEN /\ result' = Err("move_display_after", "ValueError")
                /\ UNCHANGED members
           ELSE /\ members' = moved(members, src[1], tgt[1])
                /\ result' = Ok("move_display_after", None)
        /\ UNCHANGED <<classes, member_socials, family, skipped_numbers,
                       seq_classes, seq_members, assigned, callers>>

\* ------------------------------------------------- Excel import (rows)
\* A dataframe is [columns: sequence of header texts, rows: sequence of
\* rows]; a row is a sequence of cells aligned with the columns; a cell is
\* an optional text, none standing for pandas' NaN.
COL_FIRST == <<"f", "i", "r", "s", "t", " ", "n", "a", "m", "e">>
COL_LAST == <<"l", "a", "s", "t", " ", "n", "a", "m", "e">>
COL_NICK == <<"n", "i", "c", "k", "n", "a", "m", "e">>
COL_PHONE == <<"p", "h", "o", "n", "e">>
COL_MAJOR == <<"m", "a", "j", "o", "r">>
COL_ETHNICITY == <<"e", "t", "h", "n", "i", "c", "i", "t", "y">>
COL_HOMETOWN == <<"h", "o", "m", "e", "t", "o", "w", "n">>

\* _CONTACT_MAP, for the columns the model carries (the other columns of the
\* table take the same path as major)
CONTACT_MAP ==
    {<<COL_LAST, "last_name">>, <<COL_FIRST, "first_name">>,
     <<COL_PHONE, "phone">>, <<COL_NICK, "nickname">>, <<COL_MAJOR, "major">>,
     <<COL_ETHNICITY, "ethnicity">>, <<COL_HOMETOWN, "hometown">>}

\* the header map meant by _normalize_headers: str(c).strip().lower()
normalize_headers(columns) ==
    [i \in 1..Len(columns) |-> LOWER(strip(columns[i]))]

HasCol(cols, h) == \E i \in 1..Len(cols) : cols[i] = h

required == {COL_FIRST, COL_LAST, COL_NICK}

\* rec: the fields of _CONTACT_MAP whose column the dataframe has
RowRec(cols, row) ==
    [f \in {p[2] : p \in {q \in CONTACT_MAP : HasCol(cols, q[1])}} |->
        row[CHOOSE i \in 1..Len(cols) : <<cols[i], f>> \in CONTACT_MAP]]

\* str(v) of a cell
Str(cell) == IF cell = None THEN <<"n", "a", "n">> ELSE cell[1]

IsDigit(c) == c \in {"0", "1", "2", "3", "4", "5", "6", "7", "8", "9"}

\* _clean_phone
clean_phone(v) ==
    IF v = None THEN None
    ELSE IF SelectSeq(v[1], IsDigit) = <<>> THEN None
    ELSE Some(SelectSeq(v[1], IsDigit))

\* rec.get(k)
RecGet(rec, k) == IF k \in DOMAIN rec THEN rec[k] ELSE None

\* rows of the open transaction that the "match existing" SELECT scans;
\* LIMIT 1 takes one of them
ImportMatches(mem, first, last, nick) ==
    {m \in DOMAIN mem :
        \/ LOWER(mem[m].nickname) = LOWER(nick)
        \/ /\ LOWER(mem[m].first_name) = LOWER(first)
           /\ LOWER(mem[m].last_name) = LOWER(last)}

\* mutant: the UPDATE of a matched row also puts the member first in its class
ImportUpdateRow_tofront(row, rec, first, last) ==
    LET phone == clean_phone(RecGet(rec, "phone"))
    IN  [f \in DOMAIN row |->
            IF f = "full_name" THEN Some(FullName(first, last))
            ELSE IF f = "join_order" THEN 0
            ELSE IF f = "phone" /\ phone # None THEN phone
            ELSE IF f \in DOMAIN rec
                 THEN IF f \in {"first_name", "last_name", "nickname"}
                      THEN Str(rec[f]) ELSE rec[f]
            ELSE row[f]]

\* mutant: the UPDATE of a matched row also moves it to the next class id
ImportUpdateRow_reclass(row, rec, first, last) ==
    LET phone == clean_phone(RecGet(rec, "phone"))
    IN  [f \in DOMAIN row |->
            IF f = "full_name" THEN Some(FullName(first, last))
            ELSE IF f = "class_id" THEN row[f] + 1
            ELSE IF f = "phone" /\ phone # None THEN phone
            ELSE IF f \in DOMAIN rec
                 THEN IF f \in {"first_name", "last_name", "nickname"}
                      THEN Str(rec[f]) ELSE rec[f]
            ELSE row[f]]

\* the UPDATE of a matched row: full_name from the stripped names, every
\* column of the record as the cell holds it, then the cleaned phone
ImportUpdateRow(row, rec, first, last) ==
    LET phone == clean_phone(RecGet(rec, "phone"))
    IN  [f \in DOMAIN row |->
            IF f = "full_name" THEN Some(FullName(first, last))
            ELSE IF f = "phone" /\ phone # None THEN phone
            ELSE IF f \in DOMAIN rec
                 THEN IF f \in {"first_name", "last_name", "nickname"}
                      THEN Str(rec[f]) ELSE rec[f]
            ELSE row[f]]

\* NOT NULL first_name, last_name, nickname and UNIQUE(class_id, nickname)
ImportUpdateError(mem, mid, rec) ==
    IF \E f \in {"first_name", "last_name", "nickname"} :
          f \in DOMAIN rec /\ rec[f] = None
    THEN "IntegrityError: NOT NULL members names"
    ELSE IF "nickname" \in DOMAIN rec /\ NicknameClash(mem, mid, rec["nickname"][1])
    THEN "IntegrityError: UNIQUE members.class_id, members.nickname"
    ELSE ""

\* INSERT of a row that matches no member, with the join_order and roll
\* number read for it
ImportInsert(tx, rec, first, last, nick, jo, roll_number, cid_default) ==
    IF MemberInsertError(tx.members, cid_default, nick, roll_number) # ""
    THEN [tx EXCEPT !.err =
             MemberInsertError(tx.members, cid_default, nick, roll_number)]
    ELSE IF tx.seq + 1 > MaxMembers \/ roll_number > MaxRoll
    THEN [tx EXCEPT !.over = TRUE]
    ELSE [tx EXCEPT
            !.members = @ @@
                ((tx.seq + 1) :>
                    [NewMember(cid_default, first, last, nick, jo, roll_number, None)
                        EXCEPT !.phone = clean_phone(RecGet(rec, "phone")),
                               !.major = RecGet(rec, "major"),
                               !.ethnicity = RecGet(rec, "ethnicity"),
                               !.hometown = RecGet(rec, "hometown")]),
            !.seq = @ + 1,
            !.assigned = @ \cup {<<tx.seq + 1, roll_number>>}]

\* mutant: a row that matches no member is inserted whatever create_missing is
ImportNamed_alwayscreate(tx, rec, first, last, nick, existing, rolls, skipped, cid_default, create_missing) ==
    IF first = <<>> \/ last = <<>> \/ nick = <<>> THEN {tx}
    ELSE IF existing # {}
    THEN {IF ImportUpdateError(tx.members, mid, rec) # ""
          THEN [tx EXCEPT !.err = ImportUpdateError(tx.members, mid, rec)]
          ELSE [tx EXCEPT !.members[mid] = ImportUpdateRow(@, rec, first, last)]
            : mid \in existing}
    ELSE {ImportInsert(tx, rec, first, last, nick,
                       SetMax({tx.members[m].join_order :
                                 m \in {x \in DOMAIN tx.members :
                                           Some(tx.members[x].class_id) = cid_default}},
                              0) + 2,
                       next_roll_number(rolls, skipped), cid_default)}

\* the body of the loop for a row whose three names are first, last, nick
ImportNamed(tx, rec, first, last, nick, existing, rolls, skipped, cid_default, create_missing) ==
    IF first = <<>> \/ last = <<>> \/ nick = <<>> THEN {tx}
    ELSE IF existing # {}
    THEN {IF ImportUpdateError(tx.members, mid, rec) # ""
          THEN [tx EXCEPT !.err = ImportUpdateError(tx.members, mid, rec)]
          ELSE [tx EXCEPT !.members[mid] = ImportUpdateRow(@, rec, first, last)]
            : mid \in existing}
    ELSE IF ~create_missing THEN {tx}
    ELSE {ImportInsert(tx, rec, first, last, nick,
                       SetMax({tx.members[m].join_order :
                                 m \in {x \in DOMAIN tx.members :
                                           Some(tx.members[x].class_id) = cid_default}},
                              0) + 2,
                       next_roll_number(rolls, skipped), cid_default)}

\* One row of the loop, on transaction state tx = [members, seq, assigned,
\* err, over]; rolls and skipped are what _next_roll_number reads through
\* its own connection, i.e. the committed tables.  The set of outcomes.
ImportRow(tx, rec, rolls, skipped, cid_default, create_missing) ==
    ImportNamed(tx, rec, strip(Str(rec["first_name"])), strip(Str(rec["last_name"])),
                strip(Str(rec["nickname"])),
                ImportMatches(tx.members, strip(Str(rec["first_name"])),
                              strip(Str(rec["last_name"])),
                              strip(Str(rec["nickname"]))),
                rolls, skipped, cid_default, create_missing)

\* the for loop over df.iterrows(); an exception ends it
RECURSIVE ImportRows(_, _, _, _, _, _, _)
ImportRows(tx, cols, rows, rolls, skipped, cid_default, create_missing) ==
    IF rows = <<>> \/ tx.err # "" \/ tx.over THEN {tx}
    ELSE UNION {ImportRows(t, cols, Tail(rows), rolls, skipped, cid_default,
                           create_missing) :
                  t \in ImportRow(tx, RowRec(cols, Head(rows)), rolls, skipped,
                                  cid_default, create_missing)}

\* mutant: the post-pass renormalizes only the newest class
RenormalizeAll_newest(mem, cids) ==
    IF cids = {} THEN mem ELSE renormalize_join_order(mem, SetMax(cids, 0))

\* for cid in cids: _renormalize_join_order(cid)
RECURSIVE RenormalizeAll(_, _)
RenormalizeAll(mem, cids) ==
    IF cids = {} THEN mem
    ELSE LET cid == CHOOSE c \in cids : TRUE
         IN  RenormalizeAll(renormalize_join_order(mem, cid), cids \ {cid})

\* the import once the required columns are known to be there: e is what
\* _ensure_class(default_class) gives, mem0 the members left by the pre-pass
ImportBody(df, cols, e, mem0, clear_existing, create_missing) ==
    /\ e.seq <= MaxClasses
    /\ member_socials' = IF clear_existing THEN <<>> ELSE member_socials
    /\ family' = IF clear_existing THEN <<>> ELSE family
    /\ UNCHANGED <<skipped_numbers, callers>>
    /\ IF e.err # ""
       THEN /\ result' = Err("import_roster_dataframe", e.err)
            /\ members' = mem0
            /\ UNCHANGED <<classes, seq_classes, seq_members, assigned>>
       ELSE /\ classes' = e.classes
            /\ seq_classes' = e.seq
            /\ \E tx \in ImportRows([members |-> mem0, seq |-> seq_members,
                                     assigned |-> assigned, err |-> "",
                                     over |-> FALSE],
                                    cols, df.rows,
                                    {mem0[m].roll_number : m \in DOMAIN mem0},
                                    skipped_numbers, e.cid, create_missing) :
                 /\ ~tx.over
                 /\ IF tx.err # ""
                    THEN /\ result' = Err("import_roster_dataframe", tx.err)
                         /\ members' = mem0
                         /\ UNCHANGED <<seq_members, assigned>>
                    ELSE /\ result' = Ok("import_roster_dataframe", None)
                         /\ members' = RenormalizeAll(tx.members, DOMAIN e.classes)
                         /\ seq_members' = tx.seq
                         /\ assigned' = tx.assigned

\* mutant: the clearing pre-pass runs before the required-column check
import_roster_dataframe_clearfirst(df, clear_existing, create_missing, default_class) ==
    IF \E h \in required : ~HasCol(normalize_headers(df.columns), h)
    THEN /\ result' = Err("import_roster_dataframe", "ValueError")
         /\ members' = IF clear_existing THEN <<>> ELSE members
         /\ member_socials' = IF clear_existing THEN <<>> ELSE member_socials
         /\ family' = IF clear_existing THEN <<>> ELSE family
         /\ UNCHANGED <<classes, skipped_numbers, seq_classes, seq_members,
                        assigned, callers>>
    ELSE ImportBody(df, normalize_headers(df.columns),
                    ensure_class(default_class),
                    IF clear_existing THEN <<>> ELSE members,
                    clear_existing, create_missing)

import_roster_dataframe(df, clear_existing, create_missing, default_class) ==
    IF \E h \in required : ~HasCol(normalize_headers(df.columns), h)
    THEN /\ result' = Err("import_roster_dataframe", "ValueError")
         /\ UNCHANGED <<classes, members, member_socials, family,
                        skipped_numbers, seq_classes, seq_members,
                        assigned, callers>>
    ELSE ImportBody(df, normalize_headers(df.columns),
                    ensure_class(default_class),
                    IF clear_existing THEN <<>> ELSE members,
                    clear_existing, create_missing)

\* ------------------------------------- add_member, statement by statement
OtherVars == <<member_socials, family, skipped_numbers>>

\* no other connection holds the write lock
LockFree(p) == \A q \in Procs \ {p} : ~callers[q].txopen

Finish(p, r) ==
    /\ callers' = [callers EXCEPT ![p] = Idle]
    /\ result' = r

Goto(p, c) ==
    /\ callers' = [callers EXCEPT ![p] = c]
    /\ UNCHANGED result

start_add_member(p, class_name, first_name, last_name, nickname) ==
    /\ callers[p].pc = "idle"
    /\ Goto(p, [Idle EXCEPT
                  !.pc = "ec_class_id", !.op = "add_member",
                  !.args = [class_name |-> class_name,
                            first_name |-> first_name,
                            last_name |-> last_name, nickname |-> nickname]])
    /\ UNCHANGED <<store, assigned>>

\* _ensure_class: cid = _class_id(name)
ec_class_id(p) ==
    LET c == callers[p]
        cid == class_id(c.args.class_name)
    IN  /\ c.pc = "ec_class_id"
        /\ Goto(p, [c EXCEPT !.cid = cid,
                             !.pc = IF cid # None THEN "ensured" ELSE "ec_next_idx"])
        /\ UNCHANGED <<store, assigned>>

\* _ensure_class: SELECT COALESCE(MAX(order_index), 0) + 1 FROM classes
ec_next_idx(p) ==
    LET c == callers[p]
    IN  /\ c.pc = "ec_next_idx"
        /\ Goto(p, [c EXCEPT
                      !.next_idx =
                          SetMax({classes[x].order_index : x \in DOMAIN classes}, 0) + 1,
                      !.pc = "ec_insert"])
        /\ UNCHANGED <<store, assigned>>

\* _ensure_class: INSERT INTO classes ...; commit
ec_insert(p) ==
    LET c == callers[p]
        name == strip(c.args.class_name)
    IN  /\ c.pc = "ec_insert"
        /\ LockFree(p)
        /\ IF \E x \in DOMAIN classes : classes[x].name = name
           THEN /\ Finish(p, Err(c.op, "IntegrityError: UNIQUE classes.name"))
                /\ UNCHANGED <<store, assigned>>
           ELSE /\ seq_classes < MaxClasses
                /\ classes' = classes @@
                      ((seq_classes + 1) :>
                          [name |-> name, order_index |-> c.next_idx])
                /\ seq_classes' = seq_classes + 1
                /\ Goto(p, [c EXCEPT !.pc = "ec_class_id_again"])
                /\ UNCHANGED <<members, seq_members, OtherVars, assigned>>

\* _ensure_class: return _class_id(name)
ec_class_id_again(p) ==
    LET c == callers[p]
    IN  /\ c.pc = "ec_class_id_again"
        /\ Goto(p, [c EXCEPT !.cid = class_id(c.args.class_name), !.pc = "ensured"])
        /\ UNCHANGED <<store, assigned>>

\* add_member: SELECT COALESCE(MAX(join_order), 0) + 1 ... WHERE class_id=?
am_join_order(p) ==
    LET c == callers[p]
    IN  /\ c.pc = "ensured" /\ c.op = "add_member"
        /\ Goto(p, [c EXCEPT !.join_order = next_join_order(c.cid), !.pc = "nr_max"])
        /\ UNCHANGED <<store, assigned>>

\* _next_roll_number: SELECT MAX(roll_number) FROM members, on a connection
\* of its own, which sees the committed table
nr_max(p) ==
    LET c == callers[p]
    IN  /\ c.pc = "nr_max"
        /\ Goto(p, [c EXCEPT !.last = SetMax(Rolls, 1), !.pc = "nr_skipped"])
        /\ UNCHANGED <<store, assigned>>

\* _next_roll_number: SELECT roll_number FROM skipped_numbers, and the loop
nr_skipped(p) ==
    LET c == callers[p]
    IN  /\ c.pc = "nr_skipped"
        /\ Goto(p, [c EXCEPT
                      !.roll_number = SkipLoop(c.last + 1, skipped_numbers),
                      !.pc = IF c.op = "add_member" THEN "am_insert" ELSE "im_insert"])
        /\ UNCHANGED <<store, assigned>>

\* add_member: INSERT INTO members ...; commit
am_insert(p) ==
    LET c == callers[p]
        nick == strip(c.args.nickname)
        e == MemberInsertError(members, c.cid, nick, c.roll_number)
        id == seq_members + 1
    IN  /\ c.pc = "am_insert"
        /\ LockFree(p)
        /\ IF e # ""
           THEN /\ Finish(p, Err("add_member", e))
                /\ UNCHANGED <<store, assigned>>
           ELSE /\ id <= MaxMembers
                /\ c.roll_number <= MaxRoll
                /\ members' = members @@
                      (id :> NewMember(c.cid, strip(c.args.first_name),
                                       strip(c.args.last_name), nick,
                                       c.join_order, c.roll_number, None))
                /\ seq_members' = id
                /\ assigned' = assigned \cup {<<id, c.roll_number>>}
                /\ Finish(p, Ok("add_member", Some(c.roll_number)))
                /\ UNCHANGED <<classes, seq_classes, OtherVars>>

\* ------------------------ import_roster_dataframe, statement by statement
\* the tables as caller p's import connection sees them
View(p) ==
    IF callers[p].txopen THEN callers[p].tx
    ELSE [members |-> members, seq |-> seq_members, assigned |-> assigned]

\* the row the loop is at, as rec
CurRec(c) == RowRec(normalize_headers(c.args.df.columns), c.args.df.rows[c.row])

\* the loop moves to row c.row + 1, or leaves the loop for cx.commit()
NextRow(c) ==
    [c EXCEPT !.row = @ + 1, !.existing = None,
              !.pc = IF c.row + 1 > Len(c.args.df.rows)
                     THEN "im_commit" ELSE "im_match"]

\* an exception inside "with _conn() as cx": the open transaction is rolled back
Abort(p, e) == Finish(p, Err("import_roster_dataframe", e))

start_import(p, df, clear_existing, create_missing, default_class) ==
    /\ callers[p].pc = "idle"
    /\ IF \E h \in required : ~HasCol(normalize_headers(df.columns), h)
       THEN Abort(p, "ValueError")
       ELSE Goto(p, [Idle EXCEPT
                       !.pc = IF clear_existing THEN "im_clear" ELSE "ec_class_id",
                       !.op = "import_roster_dataframe",
                       !.args = [df |-> df, create_missing |-> create_missing,
                                 class_name |-> default_class]])
    /\ UNCHANGED <<store, assigned>>

\* DELETE FROM member_socials / family / members; commit
im_clear(p) ==
    LET c == callers[p]
    IN  /\ c.pc = "im_clear"
        /\ LockFree(p)
        /\ member_socials' = <<>>
        /\ family' = <<>>
        /\ members' = <<>>
        /\ Goto(p, [c EXCEPT !.pc = "ec_class_id"])
        /\ UNCHANGED <<classes, skipped_numbers, seq_classes, seq_members, assigned>>

\* cid_default is known: the loop starts at the first row
im_loop(p) ==
    LET c == callers[p]
    IN  /\ c.pc = "ensured" /\ c.op = "import_roster_dataframe"
        /\ Goto(p, NextRow([c EXCEPT !.row = 0]))
        /\ UNCHANGED <<store, assigned>>

\* the "match existing" SELECT for the row, or the row is skipped
im_match(p) ==
    LET c == callers[p]
        rec == CurRec(c)
        first == strip(Str(rec["first_name"]))
        last == strip(Str(rec["last_name"]))
        nick == strip(Str(rec["nickname"]))
        hits == ImportMatches(View(p).members, first, last, nick)
    IN  /\ c.pc = "im_match"
        /\ IF first = <<>> \/ last = <<>> \/ nick = <<>>
           THEN Goto(p, NextRow(c))
           ELSE IF hits # {}
           THEN \E mid \in hits :
                    Goto(p, [c EXCEPT !.existing = Some(mid), !.pc = "im_update"])
           ELSE IF ~c.args.create_missing
           THEN Goto(p, NextRow(c))
           ELSE Goto(p, [c EXCEPT !.pc = "im_join_order"])
        /\ UNCHANGED <<store, assigned>>

\* UPDATE members SET ... WHERE id=mid   (opens the transaction)
im_update(p) ==
    LET c == callers[p]
        rec == CurRec(c)
        v == View(p)
        mid == c.existing[1]
        e == ImportUpdateError(v.members, mid, rec)
    IN  /\ c.pc = "im_update"
        /\ LockFree(p)
        /\ IF mid \notin DOMAIN v.members
           THEN Goto(p, NextRow([c EXCEPT !.txopen = TRUE, !.tx = v]))
           ELSE IF e # ""
           THEN Abort(p, e)
           ELSE Goto(p, NextRow(
                    [c EXCEPT
                       !.txopen = TRUE,
                       !.tx = [v EXCEPT
                                 !.members[mid] =
                                     ImportUpdateRow(@, rec,
                                                     strip(Str(rec["first_name"])),
                                                     strip(Str(rec["last_name"])))]]))
        /\ UNCHANGED <<store, assigned>>

\* SELECT COALESCE(MAX(join_order), 0) + 1 ... WHERE class_id=cid_default
im_join_order(p) ==
    LET c == callers[p]
        mem == View(p).members
    IN  /\ c.pc = "im_join_order"
        /\ Goto(p, [c EXCEPT
                      !.join_order =
                          SetMax({mem[m].join_order :
                                    m \in {x \in DOMAIN mem :
                                              Some(mem[x].class_id) = c.cid}}, 0) + 2,
                      !.pc = "nr_max"])
        /\ UNCHANGED <<store, assigned>>

\* INSERT INTO members ...   (opens the transaction)
im_insert(p) ==
    LET c == callers[p]
        rec == CurRec(c)
        v == View(p)
        nick == strip(Str(rec["nickname"]))
        e == MemberInsertError(v.members, c.cid, nick, c.roll_number)
        id == v.seq + 1
        fresh == [NewMember(c.cid, strip(Str(rec["first_name"])),
                            strip(Str(rec["last_name"])), nick,
                            c.join_order, c.roll_number, None)
                    EXCEPT !.phone = clean_phone(RecGet(rec, "phone")),
                           !.major = RecGet(rec, "major"),
                           !.ethnicity = RecGet(rec, "ethnicity"),
                           !.hometown = RecGet(rec, "hometown")]
    IN  /\ c.pc = "im_insert"
        /\ LockFree(p)
        /\ IF e # ""
           THEN Abort(p, e)
           ELSE /\ id <= MaxMembers
                /\ c.roll_number <= MaxRoll
                /\ Goto(p, NextRow(
                      [c EXCEPT
                         !.txopen = TRUE,
                         !.tx = [members |-> v.members @@ (id :> fresh),
                                 seq |-> id,
                                 assigned |-> v.assigned \cup {<<id, c.roll_number>>}]]))
        /\ UNCHANGED <<store, assigned>>

\* cx.commit() after the loop
im_commit(p) ==
    LET c == callers[p]
        v == View(p)
    IN  /\ c.pc = "im_commit"
        /\ members' = v.members
        /\ seq_members' = v.seq
        /\ assigned' = v.assigned
        /\ Goto(p, [c EXCEPT !.txopen = FALSE, !.tx = None, !.pc = "im_cids"])
        /\ UNCHANGED <<classes, seq_classes, OtherVars>>

\* cids = SELECT id FROM classes
im_cids(p) ==
    LET c == callers[p]
    IN  /\ c.pc = "im_cids"
        /\ IF classes = <<>>
           THEN Finish(p, Ok("import_roster_dataframe", None))
           ELSE Goto(p, [c EXCEPT !.cids = DOMAIN classes, !.pc = "rn_select"])
        /\ UNCHANGED <<store, assigned>>

\* _renormalize_join_order: SELECT id ... ORDER BY join_order ASC, id ASC
rn_select(p) ==
    LET c == callers[p]
        cid == CHOOSE x \in c.cids : \A y \in c.cids : x <= y
    IN  /\ c.pc = "rn_select"
        /\ Goto(p, [c EXCEPT
                      !.ranks = [m \in MembersOfClass(Some(cid)) |-> Rank(members, m)],
                      !.pc = "rn_update"])
        /\ UNCHANGED <<store, assigned>>

\* _renormalize_join_order: the UPDATEs of the selected rows; commit
rn_update(p) ==
    LET c == callers[p]
        cid == CHOOSE x \in c.cids : \A y \in c.cids : x <= y
    IN  /\ c.pc = "rn_update"
        /\ LockFree(p)
        /\ members' =
              [m \in DOMAIN members |->
                  IF m \in DOMAIN c.ranks
                  THEN [members[m] EXCEPT !.join_order = 2 * c.ranks[m]]
                  ELSE members[m]]
        /\ IF c.cids = {cid}
           THEN Finish(p, Ok("import_roster_dataframe", None))
           ELSE Goto(p, [c EXCEPT !.cids = @ \ {cid}, !.ranks = <<>>,
                                  !.pc = "rn_select"])
        /\ UNCHANGED <<classes, seq_classes, seq_members, OtherVars, assigned>>

\* ------------------------------------------------------------- lookups
\* ORDER BY: the sequences that list every element of S once, in an order
\* in which each element is related by leq to those after it; rows
\* with equal keys come in any order
SortedBy(S, leq) ==
    {q \in [1..Cardinality(S) -> S] :
        /\ \A i \in DOMAIN q, j \in DOMAIN q : q[i] = q[j] => i = j
        /\ \A i \in DOMAIN q, j \in DOMAIN q : i < j => <<q[i], q[j]>> \in leq}

\* get_member_card_by: the ids its WHERE clause selects in tables mem and
\* cls (LIMIT 1 returns one of them, None when there is none); fields maps
\* number, first, last and nick to optional values
card_rows(mem, cls, fields) ==
    {m \in DOMAIN mem :
        /\ mem[m].class_id \in DOMAIN cls
        /\ \/ fields.number # None /\ mem[m].roll_number = fields.number[1]
           \/ Truthy(fields.first)
              /\ LOWER(mem[m].first_name) = LOWER(fields.first[1])
           \/ Truthy(fields.last)
              /\ LOWER(mem[m].last_name) = LOWER(fields.last[1])
           \/ Truthy(fields.nick)
              /\ LOWER(mem[m].nickname) = LOWER(fields.nick[1])}

NoFields == [number |-> None, first |-> None, last |-> None, nick |-> None]

\* lookup_members: the member ids of the rows it can return, in order; the
\* criteria that are truthy are joined with AND
lookup_members(mem, cls, fields) ==
    LET rows == {m \in DOMAIN mem :
                    /\ mem[m].class_id \in DOMAIN cls
                    /\ Truthy(fields.first) =>
                          LOWER(mem[m].first_name) = LOWER(fields.first[1])
                    /\ Truthy(fields.last) =>
                          LOWER(mem[m].last_name) = LOWER(fields.last[1])
                    /\ Truthy(fields.nick) =>
                          LOWER(mem[m].nickname) = LOWER(fields.nick[1])
                    /\ (fields.number # None /\ fields.number[1] # 0) =>
                          mem[m].roll_number = fields.number[1]}
        leq == {p \in rows \X rows : mem[p[1]].roll_number <= mem[p[2]].roll_number}
    IN  SortedBy(rows, leq)

\* get_class_roster: the member ids of the rows it can return, in order
get_class_roster(mem, cls, class_name) ==
    LET rows == {m \in DOMAIN mem :
                    \E c \in DOMAIN cls :
                        cls[c].name = class_name /\ mem[m].class_id = c}
        leq == {p \in rows \X rows : mem[p[1]].join_order <= mem[p[2]].join_order}
    IN  SortedBy(rows, leq)

\* mutant: an inner join, which has no row for a class without members
get_roster_innerjoin(mem, cls) ==
    LET rows == {<<c, Some(m)>> : c \in DOMAIN cls, m \in DOMAIN mem}
        joined == {r \in rows :
                      IF r[2] = None
                      THEN \A m \in DOMAIN mem : mem[m].class_id # r[1]
                      ELSE mem[r[2][1]].class_id = r[1]}
        jo(r) == IF r[2] = None THEN -1 ELSE mem[r[2][1]].join_order
        Leq(x, y) ==
            \/ cls[x[1]].order_index < cls[y[1]].order_index
            \/ /\ cls[x[1]].order_index = cls[y[1]].order_index
               /\ jo(x) <= jo(y)
    IN  SortedBy(joined, {p \in joined \X joined : Leq(p[1], p[2])})

\* get_roster: the rows of classes LEFT JOIN members, as <<class id, member>>
\* with member none for a class without members (NULL sorts first), in the
\* orders it can return them
get_roster(mem, cls) ==
    LET rows == {<<c, Some(m)>> : c \in DOMAIN cls, m \in DOMAIN mem} \cup
                {<<c, None>> : c \in DOMAIN cls}
        joined == {r \in rows :
                      IF r[2] = None
                      THEN \A m \in DOMAIN mem : mem[m].class_id # r[1]
                      ELSE mem[r[2][1]].class_id = r[1]}
        jo(r) == IF r[2] = None THEN -1 ELSE mem[r[2][1]].join_order
        Leq(x, y) ==
            \/ cls[x[1]].order_index < cls[y[1]].order_index
            \/ /\ cls[x[1]].order_index = cls[y[1]].order_index
               /\ jo(x) <= jo(y)
    IN  SortedBy(joined, {p \in joined \X joined : Leq(p[1], p[2])})

\* the roster command's embeds for the rows q of get_roster: one per run of
\* consecutive rows of one class, as <<class name, member ids>>, indexed by
\* the row the run starts at; the ids are empty where the embed reads
\* "No members yet"
roster_embeds(cls, q) ==
    LET starts == {i \in DOMAIN q : i = 1 \/ cls[q[i][1]].name # cls[q[i - 1][1]].name}
        last(i) == SetMax({j \in i..Len(q) : \A k \in i..j : k = i \/ k \notin starts}, i)
        filled(r) == r[2] # None
        buf(i) == LET run == SelectSeq(SubSeq(q, i, last(i)), filled)
                  IN  [k \in DOMAIN run |-> run[k][2][1]]
    IN  [i \in starts |-> <<cls[q[i][1]].name, buf(i)>>]

\* ---------------------------------------------------------------- export
\* the columns added for the socials, with the platform text each stands for
ExportPlatforms == <<[col |-> "instagram", platform |-> <<"i", "n", "s", "t", "a", "g", "r", "a", "m">>], [col |-> "x", platform |-> <<"x">>], [col |-> "linkedin", platform |-> <<"l", "i", "n", "k", "e", "d", "i", "n">>], [col |-> "other", platform |-> <<"o", "t", "h", "e", "r">>]>>

\* SELECT m.nickname FROM family f JOIN members m ON f.big_id=m.id
\* WHERE f.member_id=?, fetchone: the nickname, none without such a row
export_big(mem, fam, mid) ==
    IF mid \in DOMAIN fam /\ fam[mid] # None /\ fam[mid][1] \in DOMAIN mem
    THEN Some(mem[fam[mid][1]].nickname) ELSE None

\* pandas df[col] = values: the list must be as long as the frame
set_column(frame, col, values) ==
    IF Len(values) # Len(frame)
    THEN [err |-> "ValueError: Length of values does not match length of index", frame |-> frame]
    ELSE [err |-> "", frame |-> [i \in DOMAIN frame |-> (col :> values[i]) @@ frame[i]]]

\* for plat in (...): df[plat] = [... for mid in []], the list built over
\* no member ids
RECURSIVE export_socials(_, _)
export_socials(frame, plats) ==
    IF plats = <<>> THEN [err |-> "", frame |-> frame]
    ELSE LET r == set_column(frame, Head(plats).col, <<>>)
         IN  IF r.err # "" THEN r ELSE export_socials(r.frame, Tail(plats))

\* export_roster_dataframe: the outcomes it can have on tables mem, cls, fam;
\* the frame has a record per member joined to a class, by roll number, with
\* big_nickname set after the member_id column is dropped
export_roster_dataframe(mem, cls, fam) ==
    LET rows == {m \in DOMAIN mem : mem[m].class_id \in DOMAIN cls}
        leq == {p \in rows \X rows : mem[p[1]].roll_number <= mem[p[2]].roll_number}
        frame(q) == [i \in DOMAIN q |->
                        [roll_number |-> mem[q[i]].roll_number,
                         class_name |-> cls[mem[q[i]].class_id].name,
                         first_name |-> mem[q[i]].first_name,
                         nickname |-> mem[q[i]].nickname,
                         last_name |-> mem[q[i]].last_name,
                         big_nickname |-> export_big(mem, fam, q[i])]]
        out(q) == LET r == export_socials(frame(q), ExportPlatforms)
                  IN  IF r.err # "" THEN Err("export_roster_dataframe", r.err)
                      ELSE Ok("export_roster_dataframe", Some(r.frame))
    IN  {out(q) : q \in SortedBy(rows, leq)}

\* ------------------------------------------------------- input alphabets
ClassNames == {<<"A">>, <<"B">>}
PaddedClassNames == {<<"A">>, <<"B">>, <<"A", " ">>}
Nicknames == {<<"a">>, <<"A">>, <<"b">>}
SkipNumbers == {3, 4}

H_FIRST == <<"F", "i", "r", "s", "t", " ", "N", "a", "m", "e">>
H_LAST == <<"l", "a", "s", "t", " ", "n", "a", "m", "e", " ">>
H_NICK == <<"N", "I", "C", "K", "N", "A", "M", "E">>
H_PHONE == <<" ", "P", "h", "o", "n", "e">>

Cell(t) == Some(t)

\* dataframes with the three required columns, and with a phone column
Df(rows) == [columns |-> <<H_FIRST, H_LAST, H_NICK>>, rows |-> rows]
DfPhone(rows) == [columns |-> <<H_FIRST, H_LAST, H_NICK, H_PHONE>>, rows |-> rows]
DfNoNick(rows) == [columns |-> <<H_FIRST, H_LAST>>, rows |-> rows]

RowJDA == <<Cell(<<"j">>), Cell(<<"d">>), Cell(<<"A">>)>>
RowKEB == <<Cell(<<"k">>), Cell(<<"e">>), Cell(<<"b">>)>>
RowKEC == <<Cell(<<"k">>), Cell(<<"e">>), Cell(<<"c">>)>>

\* ---------------------------------------------- sequential specifications
\* the allocator alone: members are only added
NextAlloc ==
    \/ \E n \in SkipNumbers : add_skipped_number(n)
    \/ \E n \in SkipNumbers : remove_skipped_number(n)
    \/ \E c \in ClassNames, n \in Nicknames :
           add_member(c, <<"j">>, <<"d">>, n, None)

SpecAlloc == Init /\ [][NextAlloc]_vars

\* numbering under creation, deletion and import
NextNum ==
    \/ \E n \in SkipNumbers : add_skipped_number(n)
    \/ \E n \in {4} : remove_skipped_number(n)
    \/ \E c \in {<<"A">>}, n \in Nicknames :
           add_member(c, <<"j">>, <<"d">>, n, None)
    \/ \E n \in {<<"a">>} : remove_member(n)
    \/ \E c \in {<<"A">>} : remove_class(c)
    \/ \E df \in {Df(<<RowKEC>>)}, clear \in BOOLEAN :
           import_roster_dataframe(df, clear, TRUE, <<"A">>)

SpecNum == Init /\ [][NextNum]_vars

\* classes made by add_class and by add_member, under padded names
NextClasses ==
    \/ \E c \in PaddedClassNames : add_class(c, 0)
    \/ \E c \in ClassNames : remove_class(c)
    \/ seq_members < MaxCreated
       /\ \E c \in PaddedClassNames, n \in Nicknames :
              add_member(c, <<"j">>, <<"d">>, n, None)
    \/ \E n \in {<<"a">>} : remove_member(n)

SpecClasses == Init /\ [][NextClasses]_vars

\* identity, deletion cascades, family and socials
NextRoster ==
    \/ \E c \in {<<"B">>} : add_class(c, 0)
    \/ \E c \in ClassNames : remove_class(c)
    \/ seq_members < MaxCreated
       /\ \E c \in ClassNames, n \in Nicknames :
              add_member(c, <<"j">>, <<"d">>, n, None)
    \/ \E n \in {<<"A">>, <<"b">>} : remove_member(n)
    \/ \E n \in {<<"b">>}, b \in {None, Some(<<"A">>)} : set_big(n, b)
    \/ \E n \in {<<"b">>} : set_social(n, <<"X">>, <<"h">>)

SpecRoster == Init /\ [][NextRoster]_vars

\* the operations that touch stored members, called one at a time
NoPatch == [f \in ProfileFields |-> None]

DfJDB == DfPhone(<<<<Cell(<<"j">>), Cell(<<"d">>), Cell(<<"B">>),
                     Cell(<<"5", "-", "1">>)>>>>)

Next ==
    \/ \E n \in {3} : add_skipped_number(n)
    \/ \E n \in {3} : remove_skipped_number(n)
    \/ \E c \in {<<"A">>} : remove_class(c)
    \/ seq_members < MaxCreated
       /\ \E c \in {<<"A">>}, n \in {<<"a">>} :
              add_member(c, <<"j">>, <<"d">>, n, None)
    \/ \E n \in {<<"a">>} : remove_member(n)
    \/ \E n \in {<<"a">>} :
           update_member_profile(n, [NoPatch EXCEPT !["major"] = Some(<<"m">>)])
    \/ \E n \in {<<"a">>} :
           update_member_name(n, None, Some(<<"k">>), Some(<<"b">>), None)
    \/ \E n \in {<<"a">>} : set_social(n, <<"X">>, <<"h">>)
    \/ \E n \in {<<"a">>} : remove_social(n, <<"x">>)
    \/ \E n \in {<<"a">>}, b \in {Some(<<"b">>)} : set_big(n, b)
    \/ \E a \in {2}, b \in {3} : swap_display_positions(a, b)
    \/ \E a \in {2}, b \in {3} : move_display_after(a, b)
    \/ seq_members < MaxCreated
       /\ \E df \in {DfJDB} : import_roster_dataframe(df, FALSE, TRUE, <<"B">>)

Spec == Init /\ [][Next]_vars

\* display order: members come and go, and are swapped and moved
RollInputs == {2, 3, 4}

NextOrder ==
    \/ \E n \in Nicknames : add_member(<<"A">>, <<"j">>, <<"d">>, n, None)
    \/ \E n \in {<<"a">>} : add_member(<<"B">>, <<"j">>, <<"d">>, n, None)
    \/ \E n \in {<<"b">>} : remove_member(n)
    \/ \E a \in RollInputs, b \in RollInputs : swap_display_positions(a, b)
    \/ \E a \in RollInputs, b \in RollInputs : move_display_after(a, b)

SpecOrder == Init /\ [][NextOrder]_vars

\* ------------------------------------------------ interleaved specification
\* caller 1 creates members; caller 2 creates members or imports a roster
\* bigs: members and a nickname nobody has, given no big, an empty one,
\* another member under another case, the member itself, nobody
FamilyNicknames == {<<"a">>, <<"b">>, <<"z">>}
BigInputs == {None, Some(<<>>), Some(<<"A">>), Some(<<"b">>), Some(<<"z">>)}

NextFamily ==
    \/ seq_members < MaxCreated
       /\ \E n \in Nicknames :
              add_member(<<"A">>, <<"j">>, <<"d">>, n, None)
    \/ \E n \in {<<"a">>, <<"b">>} : remove_member(n)
    \/ \E n \in FamilyNicknames, b \in BigInputs : set_big(n, b)

SpecFamily == Init /\ [][NextFamily]_vars

\* social handles: two spellings of one platform, a second platform, two
\* handles, a nickname nobody has
Platforms == {<<"I", "G">>, <<"i", "g">>, <<"x">>}
Handles == {<<"h">>, <<"k">>}
SocialNicknames == {<<"a">>, <<"z">>}

NextSocial ==
    \/ seq_members < MaxCreated
       /\ \E n \in {<<"a">>, <<"c">>} :
              add_member(<<"A">>, <<"j">>, <<"d">>, n, None)
    \/ \E n \in {<<"a">>} : remove_member(n)
    \/ \E n \in SocialNicknames, p \in Platforms, h \in Handles :
          set_social(n, p, h)
    \/ \E n \in SocialNicknames, p \in Platforms : remove_social(n, p)

SpecSocial == Init /\ [][NextSocial]_vars

\* profile edits: no field, one, two and three fields at a time, two
\* values for the major, a nickname nobody has
Patches == {NoPatch, [NoPatch EXCEPT !.major = Some(<<"m">>)], [NoPatch EXCEPT !.major = Some(<<"n">>)], [NoPatch EXCEPT !.age = Some(21), !.ethnicity = Some(<<"e">>)], [NoPatch EXCEPT !.major = Some(<<"n">>), !.hometown = Some(<<"t">>), !.discord_handle = Some(<<"@">>)]}

ProfileNicknames == {<<"a">>, <<"z">>}

NextProfile ==
    \/ seq_members < MaxCreated
       /\ \E f \in {<<"j">>, <<"k">>}, n \in {<<"a">>, <<"c">>} :
              add_member(<<"A">>, f, <<"d">>, n, None)
    \/ \E n \in {<<"a">>} : remove_member(n)
    \/ \E n \in ProfileNicknames, p \in Patches : update_member_profile(n, p)

SpecProfile == Init /\ [][NextProfile]_vars

\* lookup criteria: a number, a first name in two spellings, a nickname
LookupInputs == [number : {None, Some(2)}, first : {None, Some(<<"j">>), Some(<<"J">>)}, last : {None, Some(<<"d">>)}, nick : {None, Some(<<"c">>)}]

\* listings: classes made by add_class with equal and different order
\* indexes and by add_member, emptied classes, moved display positions
OrderIndexes == {0, 2}

NextListing ==
    \/ \E c \in ClassNames, o \in OrderIndexes : add_class(c, o)
    \/ \E c \in {<<"A">>} : remove_class(c)
    \/ seq_members < MaxCreated
       /\ \E c \in ClassNames, n \in {<<"a">>, <<"c">>} :
              add_member(c, <<"j">>, <<"d">>, n, None)
    \/ \E n \in {<<"a">>} : remove_member(n)
    \/ \E a \in {2, 3}, b \in {2, 3} : move_display_after(a, b)

SpecListing == Init /\ [][NextListing]_vars

\* imports without the pre-pass: one record matching by nickname under
\* another case, one matching by first and last name, one matching nobody,
\* two matching nobody
RowXYB == <<Cell(<<"x">>), Cell(<<"y">>), Cell(<<"B">>)>>
RowJDZ == <<Cell(<<"j">>), Cell(<<"d">>), Cell(<<"z">>)>>
RowLFE == <<Cell(<<"l">>), Cell(<<"f">>), Cell(<<"e">>)>>
ImportDfs == {Df(<<RowXYB>>), Df(<<RowJDZ>>), Df(<<RowKEC>>), Df(<<RowKEC, RowLFE>>)}

NextImport ==
    \/ seq_members < MaxCreated
       /\ \E n \in {<<"a">>, <<"b">>} :
              add_member(<<"A">>, <<"j">>, <<"d">>, n, None)
    \/ \E n \in {<<"a">>} : remove_member(n)
    \/ \E df \in ImportDfs, create \in BOOLEAN :
           import_roster_dataframe(df, FALSE, create, <<"B">>)

SpecImport == Init /\ [][NextImport]_vars

\* imports with and without the pre-pass, of a sheet with the required
\* columns and of one without the nickname column, on members with a social
\* handle and a big
ResetDfs == {Df(<<RowKEC>>), DfNoNick(<<<<Cell(<<"j">>), Cell(<<"d">>)>>>>)}

NextReset ==
    \/ seq_members < MaxCreated
       /\ \E n \in {<<"a">>, <<"b">>} :
              add_member(<<"A">>, <<"j">>, <<"d">>, n, None)
    \/ \E n \in {<<"b">>} : set_social(n, <<"X">>, <<"h">>)
    \/ \E n \in {<<"b">>} : set_big(n, Some(<<"a">>))
    \/ \E df \in ResetDfs, clear \in BOOLEAN :
           import_roster_dataframe(df, clear, TRUE, <<"B">>)

SpecReset == Init /\ [][NextReset]_vars

\* members with handles and bigs in two classes, removed one by one, by
\* class, or by the import's clearing pre-pass
NextRefs ==
    \/ seq_members < MaxCreated
       /\ \E c \in ClassNames, n \in {<<"a">>, <<"b">>} :
              add_member(c, <<"j">>, <<"d">>, n, None)
    \/ \E n \in {<<"a">>, <<"b">>} : set_social(n, <<"X">>, <<"h">>)
    \/ \E n \in {<<"a">>, <<"b">>}, b \in {None, Some(<<"a">>)} : set_big(n, b)
    \/ \E n \in {<<"a">>} : remove_member(n)
    \/ \E c \in ClassNames : remove_class(c)
    \/ seq_members < MaxCreated
       /\ \E clear \in BOOLEAN :
              import_roster_dataframe(Df(<<RowKEC>>), clear, TRUE, <<"B">>)

SpecRefs == Init /\ [][NextRefs]_vars

NextConc ==
    \/ \E p \in Procs :
           start_add_member(p, <<"A">>, <<"j">>, <<"d">>,
                            IF p = 1 THEN <<"a">> ELSE <<"b">>)
    \/ \E p \in {2}, clear \in BOOLEAN :
           start_import(p, Df(<<RowKEC>>), clear, TRUE, <<"A">>)
    \/ \E p \in Procs : ec_class_id(p)
    \/ \E p \in Procs : ec_next_idx(p)
    \/ \E p \in Procs : ec_insert(p)
    \/ \E p \in Procs : ec_class_id_again(p)
    \/ \E p \in Procs : am_join_order(p)
    \/ \E p \in Procs : nr_max(p)
    \/ \E p \in Procs : nr_skipped(p)
    \/ \E p \in Procs : am_insert(p)
    \/ \E p \in Procs : im_clear(p)
    \/ \E p \in Procs : im_loop(p)
    \/ \E p \in Procs : im_match(p)
    \/ \E p \in Procs : im_update(p)
    \/ \E p \in Procs : im_join_order(p)
    \/ \E p \in Procs : im_insert(p)
    \/ \E p \in Procs : im_commit(p)
    \/ \E p \in Procs : im_cids(p)
    \/ \E p \in Procs : rn_select(p)
    \/ \E p \in Procs : rn_update(p)

SpecConc == Init /\ [][NextConc]_vars

\* ------------------------------------------------------------ properties
\* the step is a call of add_member that returned a roll number
AddMemberReturned == result'.op = "add_member" /\ result'.err = ""

\* the least integer above M that is not in the set S
LeastAbove(M, S) ==
    CHOOSE n \in (M + 1)..(M + 1 + Cardinality(S)) :
        n \notin S /\ \A k \in (M + 1)..(n - 1) : k \in S

\* C1: when only add_member and the skipped-number operations run, every
\* roll number add_member returns is greater than every roll number returned
\* before it, and is not a skipped number at the moment of the call.
C1_ReturnedRollsIncrease ==
    [][AddMemberReturned =>
          \E pr \in assigned' \ assigned :
              /\ assigned' = assigned \cup {pr}
              /\ result'.val = Some(pr[2])
              /\ members'[pr[1]].roll_number = pr[2]
              /\ \A q \in assigned : q[2] < pr[2]
              /\ pr[2] \notin skipped_numbers]_vars

\* a second member got 5 while 3 and 4 were skipped
C1_SkippedPastTwoNumbers ==
    /\ assigned = {<<1, 2>>, <<2, 5>>}
    /\ skipped_numbers = {3, 4}
    /\ result = Ok("add_member", Some(5))

\* C2: a roll number that was once assigned to a member is never assigned
\* to a different member afterwards, whatever was deleted or imported since.
C2_RollNeverReused ==
    \A p \in assigned, q \in assigned : p[2] = q[2] => p[1] = q[1]

\* C3: add_member returns exactly the least integer above M that is not
\* skipped, M being the largest stored roll number, or 1 when there is none;
\* and no stored member has a roll number below 2.
C3_LeastUnskippedAboveMax ==
    /\ [](\A r \in Rolls : r >= 2)
    /\ [][AddMemberReturned =>
             /\ result'.val =
                   Some(LeastAbove(SetMax(Rolls, 1), skipped_numbers))
             /\ seq_members' \in DOMAIN members'
             /\ members'[seq_members'].roll_number =
                   LeastAbove(SetMax(Rolls, 1), skipped_numbers)]_vars

\* the scenario: members get 2 and 3, 4 is skipped, the third member gets 5
C3_ScenarioTwoThreeFive ==
    /\ assigned = {<<1, 2>>, <<2, 3>>, <<3, 5>>}
    /\ DOMAIN members = {1, 2, 3}
    /\ 4 \in skipped_numbers
    /\ result = Ok("add_member", Some(5))

\* the member tables there are: the committed one, and the one inside each
\* open import transaction
MemberTables ==
    {members} \cup {callers[p].tx.members : p \in {q \in Procs : callers[q].txopen}}

RollUniqueError == "IntegrityError: UNIQUE members.roll_number"

\* C4: in every state reached by interleaved add_member and import steps of
\* two callers, calls repeated after a failure included, no two stored
\* members have the same roll number.
C4_RollNumbersUnique ==
    \A mem \in MemberTables :
        \A m \in DOMAIN mem, n \in DOMAIN mem :
            mem[m].roll_number = mem[n].roll_number => m = n

\* two members are stored after a call that had computed a taken number was
\* rejected and made again
C4_RejectedThenRetried ==
    /\ Cardinality(DOMAIN members) = 2
    /\ result = Err("add_member", RollUniqueError)
    /\ \E p \in Procs : callers[p].pc = "am_insert" /\ callers[p].roll_number \notin Rolls

\* C5: two interleaved add_member calls never hold the same computed roll
\* number, and none of them fails on the roll number: both return.
C5_AllocationSerialized ==
    /\ \A p \in Procs, q \in Procs :
           /\ p # q
           /\ callers[p].pc = "am_insert"
           /\ callers[q].pc = "am_insert"
           => callers[p].roll_number # callers[q].roll_number
    /\ result # Err("add_member", RollUniqueError)

\* C6: the roll number of a stored member always equals the number it was
\* given when it was created, whatever operation ran since: swap, move,
\* renormalization, rename, profile update, socials, set_big, skipped
\* numbers, creation or deletion of other members, or an import updating it.
C6_RollNumberFixed ==
    /\ \A m \in DOMAIN members : <<m, members[m].roll_number>> \in assigned
    /\ \A p \in assigned, q \in assigned : p[1] = q[1] => p[2] = q[2]

\* member 1 was renamed, given a profile and a social handle, updated by an
\* import and swapped with member 2, and still has roll number 2
C6_MemberChangedEverywhere ==
    /\ DOMAIN members = {1, 2}
    /\ members[1].nickname = <<"B">>
    /\ members[1].phone = Some(<<"5", "1">>)
    /\ members[1].major # None
    /\ members[1].join_order = 4
    /\ <<1, <<"x">>>> \in DOMAIN member_socials
    /\ members[1].roll_number = 2
    /\ 3 \in skipped_numbers

\* the step is add_member called with a class name that has no row
AddMemberToMissingClass(c, n) ==
    /\ class_id(c) = None
    /\ add_member(c, <<"j">>, <<"d">>, n, None)

\* the classes table after _ensure_class added a row for the trimmed name
WithEnsuredClass(c) ==
    classes @@
        ((seq_classes + 1) :>
            [name |-> strip(c),
             order_index |->
                 SetMax({classes[x].order_index : x \in DOMAIN classes}, 0) + 1])

C8_NicknamesUniqueIgnoringCase ==
    \A m \in DOMAIN members, n \in DOMAIN members :
        LOWER(members[m].nickname) = LOWER(members[n].nickname) => m = n

\* the family rows and social handles that involve no member of the set gone
FamilyOutside(gone) ==
    {m \in DOMAIN family :
        m \notin gone /\ (family[m] = None \/ family[m][1] \notin gone)}

SocialsOutside(gone) == {k \in DOMAIN member_socials : k[1] \notin gone}

\* C9: after remove_class(c) the class is gone with its members, their
\* social handles and every family row naming one of them as member or as
\* big; get_member_card_by finds nothing for a former member's nickname or
\* roll number; members, handles and family rows outside the class are as
\* they were.
C9_RemoveClassRemovesAll ==
    [][\A c \in ClassNames :
          remove_class(c) =>
              LET gone == MembersOfClassName(c)
              IN  /\ \A x \in DOMAIN classes' : classes'[x].name # c
                  /\ members' = Restrict(members, DOMAIN members \ gone)
                  /\ member_socials' = Restrict(member_socials, SocialsOutside(gone))
                  /\ family' = Restrict(family, FamilyOutside(gone))
                  /\ \A g \in gone :
                         /\ card_rows(members', classes',
                                      [NoFields EXCEPT
                                         !.nick = Some(members[g].nickname)]) = {}
                         /\ card_rows(members', classes',
                                      [NoFields EXCEPT
                                         !.number = Some(members[g].roll_number)]) = {}]_vars

\* C10: remove_member(n) removes one member p whose nickname equals n when
\* letter case is ignored, with every social handle of p and every family
\* row in which p is the member or the big, so that a former little of p has
\* no big afterwards; everything else stays; and when no member has the
\* nickname, the store is unchanged.
C10_RemoveMemberCascades ==
    [][\A n \in Nicknames :
          remove_member(n) =>
              IF \A m \in DOMAIN members : LOWER(members[m].nickname) # LOWER(n)
              THEN UNCHANGED store
              ELSE \E p \in DOMAIN members :
                      /\ LOWER(members[p].nickname) = LOWER(n)
                      /\ members' = Restrict(members, DOMAIN members \ {p})
                      /\ member_socials' =
                            Restrict(member_socials, SocialsOutside({p}))
                      /\ family' = Restrict(family, FamilyOutside({p}))
                      /\ \A l \in DOMAIN family :
                             family[l] = Some(p) => l \notin DOMAIN family'
                      /\ UNCHANGED <<classes, skipped_numbers>>]_vars

\* member 1, created as "a", was removed under the name "A"; member 2 keeps
\* its social handle and has no big
C10_RemovedUnderOtherCase ==
    /\ result = Ok("remove_member", None)
    /\ DOMAIN members = {2}
    /\ LOWER(members[2].nickname) # <<"a">>
    /\ <<1, 2>> \in assigned
    /\ DOMAIN member_socials = {<<2, <<"x">>>>}
    /\ family = <<>>

\* the sequence q with the members x and y exchanged
Exchanged(q, x, y) ==
    [i \in DOMAIN q |-> IF q[i] = x THEN y ELSE IF q[i] = y THEN x ELSE q[i]]

\* the name of the class of member m
ClassNameOf(m) == classes[members[m].class_id].name

\* the members outside the class of member m keep their rows
OtherClassesKept(m) ==
    \A o \in DOMAIN members :
        members[o].class_id # members[m].class_id => members'[o] = members[o]

\* C11: a swap of two members of one class exchanges their places in the
\* roster of the class, every other member of the class keeps its place, and
\* the members of other classes keep their positions.
C11_SwapExchangesPlaces ==
    [][\A a \in RollInputs, b \in RollInputs :
          swap_display_positions(a, b) /\ result'.err = "" =>
              LET x == member_core_by_roll(a)[1]
                  y == member_core_by_roll(b)[1]
              IN  /\ \A before \in get_class_roster(members, classes, ClassNameOf(x)),
                        after \in get_class_roster(members', classes', ClassNameOf(x)) :
                         after = Exchanged(before, x, y)
                  /\ OtherClassesKept(x)]_vars

\* the scenario: members with rolls 2 and 3 were swapped, and the roster of
\* their class lists 3 before 2
C11_ScenarioSwapped ==
    /\ result = Ok("swap_display_positions", None)
    /\ DOMAIN members = {1, 2}
    /\ members[1].roll_number = 2 /\ members[2].roll_number = 3
    /\ get_class_roster(members, classes, <<"A">>) = {<<2, 1>>}

\* the members that hold roll number n
HoldersOf(n) == {m \in DOMAIN members : members[m].roll_number = n}

\* roll numbers a and b do not name two members of one class
NotInOneClass(a, b) ==
    \/ HoldersOf(a) = {}
    \/ HoldersOf(b) = {}
    \/ \E x \in HoldersOf(a), y \in HoldersOf(b) :
           members[x].class_id # members[y].class_id

\* C12: a swap or a move whose two roll numbers name members of different
\* classes, or of which one names no member, raises an error and changes no
\* member's position (nor anything else stored).
C12_CrossClassRejected ==
    [][\A a \in RollInputs, b \in RollInputs :
          /\ NotInOneClass(a, b)
          /\ swap_display_positions(a, b) \/ move_display_after(a, b)
          => /\ result'.err = "ValueError"
             /\ UNCHANGED store]_vars

\* a move was refused while the two stored members are in different classes
C12_MoveRefusedAcrossClasses ==
    /\ result = Err("move_display_after", "ValueError")
    /\ DOMAIN members = {1, 2}
    /\ members[1].class_id # members[2].class_id
    /\ members[1].join_order = 2 /\ members[2].join_order = 2

\* members x and y are in one class
SameClass(x, y) == members[x].class_id = members[y].class_id

\* the members table with the class of member x numbered 1..N in its
\* present roster order
Compacted(x) ==
    [m \in DOMAIN members |->
        IF members[m].class_id = members[x].class_id
        THEN [members[m] EXCEPT !.join_order = 2 * Rank(members, m)]
        ELSE members[m]]

ClassMates(mem, x) == {m \in DOMAIN mem : mem[m].class_id = mem[x].class_id}

\* C14: after a move of member x behind another member y of its class, the
\* N members of the class have the positions 1..N, x has the position after
\* y's, the members other than x are in the order they were in, and the
\* members of other classes keep their positions.
C14_MovePutsRightAfter ==
    [][\A a \in RollInputs, b \in RollInputs :
          a # b /\ move_display_after(a, b) /\ result'.err = "" =>
              LET x == member_core_by_roll(a)[1]
                  y == member_core_by_roll(b)[1]
                  mates == ClassMates(members, x)
              IN  /\ DOMAIN members' = DOMAIN members
                  /\ {members'[m].join_order : m \in mates} =
                        {2 * i : i \in 1..Cardinality(mates)}
                  /\ members'[x].join_order = members'[y].join_order + 2
                  /\ \A u \in mates \ {x}, v \in mates \ {x} :
                         members[u].join_order < members[v].join_order
                         <=> members'[u].join_order < members'[v].join_order
                  /\ OtherClassesKept(x)]_vars

\* member 1 was moved behind member 3 in a class of three: the roster is
\* 2, 3, 1
C14_MovedToTheEnd ==
    /\ result = Ok("move_display_after", None)
    /\ DOMAIN members = {1, 2, 3}
    /\ get_class_roster(members, classes, <<"A">>) = {<<2, 3, 1>>}

\* the members of table mem that a lookup by nickname nick resolves to
ResolvesTo(mem, nick) ==
    {m \in DOMAIN mem : LOWER(mem[m].nickname) = LOWER(nick)}

\* C15: a rename of member p from nickname "a" to "b" by update_member_name
\* leaves the family rows and the social handles as they were, so that p's
\* big, littles and handles are the same; afterwards "b" resolves to p (and
\* to nobody else), and "a" does not resolve to p.
C15_RenameMovesLookupKey ==
    [][update_member_name(<<"a">>, None, Some(<<"k">>), Some(<<"b">>), None)
       /\ result'.err = "" =>
          \E p \in ResolvesTo(members, <<"a">>) :
              /\ members'[p].nickname = <<"b">>
              /\ \A m \in DOMAIN members \ {p} : members'[m] = members[m]
              /\ family' = family
              /\ member_socials' = member_socials
              /\ ResolvesTo(members', <<"b">>) = {p}
              /\ p \notin ResolvesTo(members', <<"a">>)]_vars

\* the big of member q as the card shows it: the family row's big_id, when
\* it names a stored member
BigOf(q) == IF q \in DOMAIN family /\ family[q] # None /\ family[q][1] \in DOMAIN members THEN family[q] ELSE None

\* the littles of member p as the card lists them
LittlesOf(p) == {q \in DOMAIN family \cap DOMAIN members : family[q] = Some(p)}

\* C16: set_big on an unknown member, or with a non-empty unknown big, is a
\* not-found error that changes nothing; an empty or absent big leaves the
\* member without a big; otherwise the member's big becomes the named one,
\* whatever it was before, and no other member's big changes; at all times
\* q is a little of p exactly when p is the big of q
C16_SetBigSetsOneParent ==
    /\ [][\A n \in FamilyNicknames, bn \in BigInputs :
            set_big(n, bn) =>
              IF ResolvesTo(members, n) = {}
                 \/ (Truthy(bn) /\ ResolvesTo(members, bn[1]) = {})
              THEN result'.err = "ValueError" /\ store' = store
              ELSE /\ result'.err = ""
                   /\ members' = members
                   /\ \E mid \in ResolvesTo(members, n) :
                        /\ mid \in DOMAIN family'
                        /\ \A q \in DOMAIN family' \ {mid} :
                               q \in DOMAIN family /\ family'[q] = family[q]
                        /\ DOMAIN family \subseteq DOMAIN family'
                        /\ IF Truthy(bn)
                           THEN \E bid \in ResolvesTo(members, bn[1]) :
                                   BigOf(mid)' = Some(bid)
                           ELSE BigOf(mid)' = None]_vars
    /\ [](\A p \in DOMAIN members, q \in DOMAIN members :
             q \in LittlesOf(p) <=> BigOf(q) = Some(p))

\* C16 witness: set_big has succeeded and a member has another member as
\* its big and no littles of its own
C16_BigReplaced ==
    /\ result = Ok("set_big", None)
    /\ \E p \in DOMAIN members, q \in DOMAIN members :
          p # q /\ BigOf(q) = Some(p) /\ LittlesOf(q) = {}

\* the handles member m has, by platform, as the card's socials dict
SocialsOf(soc, m) == {<<k[2], soc[k]>> : k \in {x \in DOMAIN soc : x[1] = m}}

\* C17: set_social on a known member stores the handle under the
\* lower-cased platform, replacing the handle stored there and touching no
\* other entry; on an unknown member it is a not-found error that changes
\* nothing; remove_social of an unknown member, or of a platform the member
\* has no handle for, changes nothing; at all times every stored platform
\* is lower-case, so that spellings differing in case are one entry
C17_SocialUpsertLowerCased ==
    /\ [][\A n \in SocialNicknames, p \in Platforms, h \in Handles :
            set_social(n, p, h) =>
              IF ResolvesTo(members, n) = {}
              THEN result'.err = "ValueError" /\ store' = store
              ELSE /\ result'.err = ""
                   /\ members' = members /\ family' = family
                   /\ \E mid \in ResolvesTo(members, n) :
                        /\ DOMAIN member_socials' =
                              DOMAIN member_socials \cup {<<mid, LOWER(p)>>}
                        /\ member_socials'[<<mid, LOWER(p)>>] = h
                        /\ \A k \in DOMAIN member_socials \ {<<mid, LOWER(p)>>} :
                              member_socials'[k] = member_socials[k]]_vars
    /\ [][\A n \in SocialNicknames, p \in Platforms :
            remove_social(n, p)
            /\ (\A mid \in ResolvesTo(members, n) :
                   <<mid, LOWER(p)>> \notin DOMAIN member_socials)
            => store' = store]_vars
    /\ [](\A k \in DOMAIN member_socials, j \in DOMAIN member_socials :
             k[1] = j[1] /\ LOWER(k[2]) = LOWER(j[2]) => k = j)

\* C17 witness: after set_social a member has exactly one handle for the
\* platform given in upper case, stored in lower case, and one for another
\* platform
C17_HandleUnderLowerCase ==
    /\ result = Ok("set_social", None)
    /\ \E m \in DOMAIN members :
          SocialsOf(member_socials, m) =
              {<<(<<"i", "g">>), (<<"k">>)>>, <<(<<"x">>), (<<"h">>)>>}

\* the fields of a member row that are not profile fields
KeptFields == {"first_name", "last_name", "nickname", "full_name", "class_id", "roll_number", "join_order", "honorific", "bio", "phone"}

\* C18: update_member_profile on a known member sets each provided profile
\* field to the value given and leaves every other profile field, the
\* member's names, class, roll number and display position, every other
\* member and every other table as they were; with no field provided
\* nothing changes; on an unknown member it is a not-found error that
\* changes nothing
C18_ProfileEditTouchesProvidedOnly ==
    [][\A n \in ProfileNicknames, p \in Patches :
          update_member_profile(n, p) =>
            IF ResolvesTo(members, n) = {}
            THEN result'.err = "ValueError" /\ store' = store
            ELSE /\ result'.err = ""
                 /\ p = NoPatch => store' = store
                 /\ <<classes, member_socials, family, skipped_numbers>>' =
                       <<classes, member_socials, family, skipped_numbers>>
                 /\ DOMAIN members' = DOMAIN members
                 /\ \E mid \in ResolvesTo(members, n) :
                      /\ \A m \in DOMAIN members \ {mid} :
                            members'[m] = members[m]
                      /\ \A f \in KeptFields :
                            members'[mid][f] = members[mid][f]
                      /\ \A f \in ProfileFields :
                            members'[mid][f] =
                               IF p[f] = None THEN members[mid][f] ELSE p[f]]_vars

\* C18 witness: after update_member_profile a member has a major and an
\* age that were given and no hometown, which never was
C18_SomeFieldsEdited ==
    /\ result = Ok("update_member_profile", None)
    /\ \E m \in DOMAIN members :
          /\ members[m].major = Some(<<"m">>)
          /\ members[m].age = Some(21)
          /\ members[m].hometown = None

\* member m matches at least one of the criteria that are provided
MatchesSome(mem, m, fields) ==
    \/ fields.number # None /\ mem[m].roll_number = fields.number[1]
    \/ fields.first # None /\ LOWER(mem[m].first_name) = LOWER(fields.first[1])
    \/ fields.last # None /\ LOWER(mem[m].last_name) = LOWER(fields.last[1])
    \/ fields.nick # None /\ LOWER(mem[m].nickname) = LOWER(fields.nick[1])

\* C19: for every choice of criteria, the single-result lookup finds a
\* member whenever some member matches at least one criterion, and the
\* multi-result lookup returns every member matching at least one
\* criterion, by ascending roll number
C19_LookupMatchesAnyCriterion ==
    \A fields \in LookupInputs :
        /\ (\E m \in DOMAIN members : MatchesSome(members, m, fields))
              => card_rows(members, classes, fields) # {}
        /\ \A q \in lookup_members(members, classes, fields) :
              /\ \A m \in DOMAIN members :
                    MatchesSome(members, m, fields) =>
                       \E i \in DOMAIN q : q[i] = m
              /\ \A i \in DOMAIN q, j \in DOMAIN q :
                    i < j => members[q[i]].roll_number < members[q[j]].roll_number

\* C20: get_roster's rows come by ascending order_index of their class and,
\* within a class, by ascending join_order; every class has a row, a class
\* without members exactly one, which names no member, and every member is
\* in exactly one row, that of its class; the roster command shows an embed
\* for every class, and exactly one, without members, for a class without
\* members; get_class_roster of a class lists exactly its members, each
\* once, by ascending join_order
C20_RosterListsEveryClassInOrder ==
    /\ \A q \in get_roster(members, classes) :
          /\ \A i \in DOMAIN q, j \in DOMAIN q :
                i < j => /\ classes[q[i][1]].order_index <= classes[q[j][1]].order_index
                         /\ (q[i][1] = q[j][1] /\ q[i][2] # None /\ q[j][2] # None)
                               => members[q[i][2][1]].join_order <= members[q[j][2][1]].join_order
          /\ \A c \in DOMAIN classes :
                /\ \E i \in DOMAIN q : q[i][1] = c
                /\ MembersOfClass(Some(c)) = {}
                      => /\ \A i \in DOMAIN q, j \in DOMAIN q : (q[i][1] = c /\ q[j][1] = c) => i = j
                         /\ \A i \in DOMAIN q : q[i][1] = c => q[i][2] = None
                /\ MembersOfClass(Some(c)) # {}
                      => \A i \in DOMAIN q : q[i][1] = c => q[i][2] # None
          /\ \A m \in DOMAIN members :
                /\ \E i \in DOMAIN q : q[i] = <<members[m].class_id, Some(m)>>
                /\ \A i \in DOMAIN q, j \in DOMAIN q : (q[i][2] = Some(m) /\ q[j][2] = Some(m)) => i = j
          /\ LET e == roster_embeds(classes, q)
             IN  \A c \in DOMAIN classes :
                    /\ \E i \in DOMAIN e : e[i][1] = classes[c].name
                    /\ MembersOfClass(Some(c)) = {}
                          => /\ \A i \in DOMAIN e, j \in DOMAIN e : (e[i][1] = classes[c].name /\ e[j][1] = classes[c].name) => i = j
                             /\ \A i \in DOMAIN e : e[i][1] = classes[c].name => e[i][2] = <<>>
    /\ \A g \in ClassNames :
          \A q \in get_class_roster(members, classes, g) :
             /\ {q[i] : i \in DOMAIN q} = MembersOfClassName(g)
             /\ \A i \in DOMAIN q, j \in DOMAIN q :
                   /\ i < j => members[q[i]].join_order <= members[q[j]].join_order
                   /\ q[i] = q[j] => i = j

\* C20 witness: the roster is the placeholder row of an empty class with
\* the lower order index, then the two members of another class, the later
\* member first after a move
C20_EmptyClassThenMovedMembers ==
    /\ result = Ok("move_display_after", None)
    /\ \E b \in DOMAIN classes, a \in DOMAIN classes :
          get_roster(members, classes) = {<<(<<b, None>>), (<<a, Some(2)>>), (<<a, Some(1)>>)>>}

\* the members that the first record of dataframe df matches in table mem
FirstRecordMatches(mem, df) ==
    LET rec == RowRec(normalize_headers(df.columns), df.rows[1])
    IN  ImportMatches(mem, strip(Str(rec["first_name"])), strip(Str(rec["last_name"])), strip(Str(rec["nickname"])))

\* an import, without the pre-pass, of the one record of df, which matches a
\* stored member, has succeeded (create_missing has no part in it)
MatchingImport(df) ==
    /\ Len(df.rows) = 1
    /\ \A h \in required : HasCol(normalize_headers(df.columns), h)
    /\ result'.op = "import_roster_dataframe"
    /\ result'.err = ""
    /\ FirstRecordMatches(members, df) # {}
    /\ import_roster_dataframe(df, FALSE, TRUE, <<"B">>)

C22_NoCreationWhenDisabled ==
    [][\A df \in ImportDfs :
          (DOMAIN members' # DOMAIN members \/ seq_members' # seq_members)
          => ~import_roster_dataframe(df, FALSE, FALSE, <<"B">>)]_vars

\* C22 witness: an import has succeeded on a store that never had a member,
\* where its records match nobody; it has made the default class and no
\* member
C22_NothingCreated ==
    /\ result = Ok("import_roster_dataframe", None)
    /\ seq_members = 0
    /\ \E c \in DOMAIN classes : classes[c].name = <<"B">>

\* the members that some record of dataframe df matches in table mem
AnyRecordMatches(mem, df) ==
    UNION {FirstRecordMatches(mem, [df EXCEPT !.rows = <<df.rows[i]>>]) : i \in DOMAIN df.rows}

\* C23: an import with create_missing of two records that match no stored
\* member succeeds and adds two members, in the default class, the first
\* record's with the allocator's next roll number and the second's with a
\* larger one, neither of them a skipped number, at positions after those
\* the class had
C23_TwoNewRecordsCreated ==
    [][(/\ AnyRecordMatches(members, Df(<<RowKEC, RowLFE>>)) = {}
        /\ import_roster_dataframe(Df(<<RowKEC, RowLFE>>), FALSE, TRUE, <<"B">>))
       => /\ result'.err = ""
          /\ \E x \in DOMAIN members' \ DOMAIN members, y \in DOMAIN members' \ DOMAIN members :
                /\ DOMAIN members' = DOMAIN members \cup {x, y}
                /\ x < y
                /\ members'[x].nickname = <<"c">> /\ members'[y].nickname = <<"e">>
                /\ members'[x].roll_number = next_roll_number(Rolls, skipped_numbers)
                /\ members'[x].roll_number < members'[y].roll_number
                /\ members'[y].roll_number \notin skipped_numbers
                /\ \A m \in {x, y} : classes'[members'[m].class_id].name = <<"B">>
                /\ \A m \in DOMAIN members :
                      members[m].class_id = members'[x].class_id
                         => Rank(members', m) < Rank(members', x)
                /\ Rank(members', x) < Rank(members', y)]_vars

\* C24: in every reachable state the export succeeds with a record for
\* every stored member and no other, by ascending roll number, each with
\* the nickname of the member's big, none when it has no big, and for each
\* of the four platforms the member's handle, none when it has none
C24_ExportOneRecordPerMember ==
    \A out \in export_roster_dataframe(members, classes, family) :
        /\ out.err = ""
        /\ Len(out.val[1]) = Cardinality(DOMAIN members)
        /\ \A i \in DOMAIN out.val[1], j \in DOMAIN out.val[1] :
              i < j => out.val[1][i].roll_number < out.val[1][j].roll_number
        /\ \A m \in DOMAIN members :
              \E i \in DOMAIN out.val[1] :
                 /\ out.val[1][i].roll_number = members[m].roll_number
                 /\ out.val[1][i].nickname = members[m].nickname
                 /\ out.val[1][i].big_nickname =
                       (IF BigOf(m) = None THEN None ELSE Some(members[BigOf(m)[1]].nickname))
                 /\ \A k \in DOMAIN ExportPlatforms :
                       out.val[1][i][ExportPlatforms[k].col] =
                          (IF <<m, ExportPlatforms[k].platform>> \in DOMAIN member_socials
                           THEN Some(member_socials[<<m, ExportPlatforms[k].platform>>])
                           ELSE None)

\* the stored tables
Tables == <<classes, members, member_socials, family, skipped_numbers>>

\* C25: every operation other than the import that ends in an error leaves
\* every table as it was before the call
C25_ErrorsChangeNothing ==
    [][(result'.err # "" /\ result'.op # "import_roster_dataframe")
          => Tables' = Tables]_vars

C27_MaxRollNeverDecreases ==
    [][SetMax(Rolls', 1) >= SetMax(Rolls, 1)]_vars

\* C28: add_class under a name that, stripped, is the name of a stored class
\* ends in the UNIQUE error and changes no table; remove_class of a name that
\* no stored class has changes no table; and after every step the names of
\* the stored classes are pairwise distinct
C28_ClassNamesStayUnique ==
    [][/\ \A c \in PaddedClassNames :
              (/\ \E k \in DOMAIN classes : classes[k].name = strip(c)
               /\ add_class(c, 0))
              => /\ result' = Err("add_class", "IntegrityError: UNIQUE classes.name")
                 /\ Tables' = Tables
       /\ \A c \in ClassNames :
              (/\ \A k \in DOMAIN classes : classes[k].name # c
               /\ remove_class(c))
              => Tables' = Tables
       /\ \A j \in DOMAIN classes', k \in DOMAIN classes' :
              classes'[j].name = classes'[k].name => j = k]_vars

\* C28 witness: add_class was refused for a class that has a member and an
\* order index other than the one passed
C28_DuplicateRefused ==
    /\ result = Err("add_class", "IntegrityError: UNIQUE classes.name")
    /\ \E k \in DOMAIN classes :
          /\ classes[k].order_index # 0
          /\ MembersOfClass(Some(k)) # {}

\* C29: an import with clear_existing that has its required columns leaves no
\* member that was stored before it, no social handle and no family row of
\* such a member, and every class that was stored before it; an import with
\* clear_existing that lacks a required column changes no table
C29_ClearErasesMembersNotClasses ==
    [][\A df \in ResetDfs :
          import_roster_dataframe(df, TRUE, TRUE, <<"B">>)
          => IF \E h \in required : ~HasCol(normalize_headers(df.columns), h)
             THEN /\ result'.err = "ValueError"
                  /\ Tables' = Tables
             ELSE /\ DOMAIN members' \cap DOMAIN members = {}
                  /\ \A k \in DOMAIN member_socials' : k[1] \notin DOMAIN members
                  /\ \A m \in DOMAIN family' :
                         /\ m \notin DOMAIN members
                         /\ family'[m] # None => family'[m][1] \notin DOMAIN members
                  /\ \A c \in DOMAIN classes :
                         c \in DOMAIN classes' /\ classes'[c] = classes[c]]_vars

\* C29 witness: after two members were created in class A, a clearing import
\* left only the member it created itself, no social handle, no family row,
\* and class A without a member
C29_ClearedButClassKept ==
    /\ result = Ok("import_roster_dataframe", None)
    /\ DOMAIN members = {MaxCreated + 1}
    /\ member_socials = <<>>
    /\ family = <<>>
    /\ \E c \in DOMAIN classes :
          classes[c].name = <<"A">> /\ MembersOfClass(Some(c)) = {}

\* C30: in every state between two operations, two different members of the
\* same class have different join_order values
C30_PositionsDistinctInClass ==
    \A m \in DOMAIN members, k \in DOMAIN members :
        (/\ members[m].class_id = members[k].class_id
         /\ members[m].join_order = members[k].join_order)
        => m = k

\* C30 witness: a swap or a move has completed in a class of two members
C30_TwoMembersReordered ==
    /\ result.err = ""
    /\ result.op \in {"swap_display_positions", "move_display_after"}
    /\ \E m \in DOMAIN members, k \in DOMAIN members :
          m # k /\ members[m].class_id = members[k].class_id

\* the members of class cid hold exactly the positions 1..N (stored doubled)
Dense(mem, cid) ==
    LET S == {m \in DOMAIN mem : mem[m].class_id = cid}
    IN  {mem[m].join_order : m \in S} = {2 * i : i \in 1..Cardinality(S)}

\* join_order values written over one member of a reachable table to give
\* _renormalize_join_order ties, gaps, a half position and the swap's -1
PerturbedOrders == {-2, 2, 3, 4, 8}

\* the reachable table and every table that differs from it in the
\* join_order of one member
RenormalizeInputs ==
    {members} \cup
    {[members EXCEPT ![m].join_order = v] : m \in DOMAIN members, v \in PerturbedOrders}

\* what _renormalize_join_order(cid) makes of the table mem
RenormalizeCorrect(mem, cid) ==
    LET r == renormalize_join_order(mem, cid)
    IN  /\ DOMAIN r = DOMAIN mem
        /\ Dense(r, cid)
        /\ \A a \in DOMAIN mem, b \in DOMAIN mem :
               (mem[a].class_id = cid /\ mem[b].class_id = cid /\ Before(mem, a, b))
               => r[a].join_order < r[b].join_order
        /\ \A m \in DOMAIN mem :
               /\ mem[m].class_id # cid => r[m] = mem[m]
               /\ r[m] = [mem[m] EXCEPT !.join_order = r[m].join_order]
        /\ renormalize_join_order(r, cid) = r

\* C31: _renormalize_join_order gives the N members of the class the
\* positions 1..N in the order of their join_order, equal values by id,
\* changes no other field and no other class, and is idempotent; and after
\* every successful swap or move the class of the two members is at 1..N
C31_RenormalizeMakesDense ==
    /\ [](\A mem \in RenormalizeInputs, cid \in 1..MaxClasses :
              RenormalizeCorrect(mem, cid))
    /\ [][\A a \in RollInputs, b \in RollInputs :
              ((swap_display_positions(a, b) \/ move_display_after(a, b))
               /\ result'.err = "")
              => Dense(members', members[member_core_by_roll(a)[1]].class_id)]_vars

\* C31 witness: a swap or a move has completed in a class of three members
\* whose order is no longer the order of their ids
C31_ThreeMembersDenseAfterReorder ==
    /\ result.err = ""
    /\ result.op \in {"swap_display_positions", "move_display_after"}
    /\ \E c \in 1..MaxClasses :
          /\ Cardinality(MembersOfClass(Some(c))) = 3
          /\ Dense(members, c)
          /\ \E m \in MembersOfClass(Some(c)), k \in MembersOfClass(Some(c)) :
                m < k /\ members[m].join_order > members[k].join_order

\* C32: after a successful import the members of every stored class hold
\* exactly the positions 1..N, and two members of one class that were stored
\* before the import are in the order they were in
C32_ImportLeavesEveryClassDense ==
    [][(result'.op = "import_roster_dataframe" /\ result'.err = "")
       => /\ \A c \in DOMAIN classes' : Dense(members', c)
          /\ \A m \in DOMAIN members \cap DOMAIN members',
                k \in DOMAIN members \cap DOMAIN members' :
                 /\ members'[m].class_id = members[m].class_id
                 /\ (members[m].class_id = members[k].class_id
                        /\ Before(members, m, k))
                    => Before(members', m, k)]_vars

\* C32 witness: an import has succeeded with a member in the default class
\* and, in another class, the second member ever created alone at position 1
C32_BothClassesDense ==
    /\ result = Ok("import_roster_dataframe", None)
    /\ \E a \in DOMAIN classes, b \in DOMAIN classes :
          /\ classes[a].name = <<"A">>
          /\ classes[b].name = <<"B">>
          /\ MembersOfClass(Some(a)) = {2}
          /\ members[2].join_order = 2
          /\ MembersOfClass(Some(b)) # {}

\* C33: in every reachable state no family row has its own member as big
C33_NoMemberIsOwnBig ==
    \A m \in DOMAIN family : family[m] # Some(m)

\* C34: in every reachable state every social handle is of a stored member
\* and every family row has a stored member and, when it has a big, a
\* stored big
C34_NoDanglingReference ==
    /\ \A k \in DOMAIN member_socials : k[1] \in DOMAIN members
    /\ \A m \in DOMAIN family :
          /\ m \in DOMAIN members
          /\ family[m] # None => family[m][1] \in DOMAIN members

\* C34 witness: a member or a class has been removed, a member created
\* earlier is gone, and a handle and a family row of a remaining member are
\* still stored
C34_RemovedWithOthersKept ==
    /\ result.op \in {"remove_member", "remove_class"}
    /\ Cardinality(DOMAIN members) < seq_members
    /\ member_socials # <<>>
    /\ family # <<>>

\* C35: no step changes the class of a member that is stored before and
\* after it, and after every step every stored member is in a stored class
C35_ClassOfMemberFixed ==
    [][/\ \A m \in DOMAIN members \cap DOMAIN members' :
              members'[m].class_id = members[m].class_id
       /\ \A m \in DOMAIN members' :
              members'[m].class_id \in DOMAIN classes']_vars

\* C35 witness: an import has updated a member of class A, renaming it B,
\* with B as its default class, and the member is still in class A
C35_ImportedMemberStaysInClass ==
    /\ result = Ok("import_roster_dataframe", None)
    /\ \E m \in DOMAIN members, a \in DOMAIN classes, b \in DOMAIN classes :
          /\ classes[a].name = <<"A">>
          /\ classes[b].name = <<"B">>
          /\ members[m].class_id = a
          /\ members[m].nickname = <<"B">>
          /\ members[m].first_name = <<"j">>

====
